---- MODULE Spec2Model ----
(***************************************************************************)
(* A model of the distributed key-value store: Version ordering, the      *)
(* consistent-hash Ring, the memtable + SSTable Store, the gossiped        *)
(* membership State and the coordinator (client PUT / GET, internal        *)
(* replication endpoint, gossip endpoint) of internal/node/node.go.        *)
(***************************************************************************)
EXTENDS Integers, Sequences, FiniteSets, TLC

(***************************************************************************)
(* Program constants.                                                      *)
(***************************************************************************)
replicaFactor == 3
writeQuorum == 2
readQuorum == 2

\* The threshold NewStore installs in Store.flushThreshold (1000 in the
\* source); the model runs the store with a threshold of 2 distinct keys so
\* that a flush happens within the model's key set.
flushThreshold == 2

\* The number of virtual nodes NewRing is given (100 in main); 2 per node
\* here, enough for the walk of Ring.Get to meet duplicates of a physical node.
virtualNodes == 2

StatusOK == 200
StatusCreated == 201
StatusBadRequest == 400
StatusServiceUnavailable == 503

(***************************************************************************)
(* Bounds of the model.                                                    *)
(***************************************************************************)
\* Client PUTs and client GETs issued in one behaviour.
MaxPuts == 2
MaxGets == 1
\* Answers of a peer that miss the coordinator's timeout, in one behaviour.
MaxTimeouts == 1
\* SSTable files one node's directory holds.
MaxFiles == 1
\* Client PUTs of one behaviour of SpecRace, and its requests in progress at once.
RacePuts == 3
RaceInFlight == 2
\* Process crashes in one behaviour of SpecCrash.
MaxCrashes == 1
\* Calls of Store.Put (direct or through /internal/kv) in one behaviour of
\* SpecStore, and the greatest counter of the versions they carry.
StorePuts == 4
StoreCounters == 2
\* The greatest timestamp of a membership state SpecMerge starts from.
MaxTS == 3
\* Calls of Ring.Add in one behaviour of SpecRing, over its two rings.
RingAdds == 6
\* Client PUTs in one behaviour of SpecVersion.
VersionPuts == 4
\* Rounds of the gossip loop and address lookups in one behaviour of SpecLock.
LockSends == 3
LockLookups == 1
\* Calls of Store.Put and of Store.Get in one behaviour of SpecConc.
ConcPuts == 5
ConcGets == 2

NodeIDs == {"A", "B", "C"}
Keys == {"x", "y"}

(***************************************************************************)
(* Go's string order on the node ids ("" is the zero Version's NodeID).    *)
(***************************************************************************)
StrOrd(s) ==
    CASE s = "" -> 0
      [] s = "A" -> 1
      [] s = "B" -> 2
      [] s = "C" -> 3
      [] s = "x" -> 4
      [] s = "y" -> 5

(***************************************************************************)
(* Version and Entry.                                                      *)
(***************************************************************************)
ZeroVersion == [counter |-> 0, nodeID |-> ""]

Compare(v, o) ==
    IF v.counter > o.counter THEN 1
    ELSE IF v.counter < o.counter THEN -1
    ELSE IF StrOrd(v.nodeID) > StrOrd(o.nodeID) THEN 1
    ELSE IF StrOrd(v.nodeID) < StrOrd(o.nodeID) THEN -1
    ELSE 0

\* Go's Entry{}: the zero value returned beside ok = false.
ZeroEntry == [key |-> "", value |-> "", version |-> ZeroVersion]

(***************************************************************************)
(* Store: memtable (a Go map, here a function on the keys present) and the *)
(* SSTable files of the directory, oldest first (file names are increasing *)
(* nanosecond timestamps); a file is its sequence of JSON lines.           *)
(***************************************************************************)
NewStore == [memtable |-> <<>>, files |-> <<>>]

\* sort.Slice(snap, key ascending) of the memtable's entries.
RECURSIVE SortedSnapshot(_, _)
SortedSnapshot(memtable, ks) ==
    IF ks = {} THEN <<>>
    ELSE LET k == CHOOSE a \in ks : \A b \in ks : StrOrd(a) <= StrOrd(b)
         IN <<memtable[k]>> \o SortedSnapshot(memtable, ks \ {k})

\* Outcomes of the file I/O of one flush.
FlushOutcomes == {"ok", "createFail"}

\* Outcomes where os.Create succeeds and the buffered write fails: the new
\* file is left with a part of the snapshot, here no line or the first line.
WriteFailures == {"writeFail0", "writeFail1"}

\* The lines a failed write leaves in the file.
Written(snap, io) ==
    IF io = "writeFail1" /\ Len(snap) > 1 THEN SubSeq(snap, 1, 1) ELSE <<>>

\* writeToSSTable clearing the memtable whether or not the flush succeeded.
writeToSSTableClearing(s, io) ==
    IF Cardinality(DOMAIN s.memtable) = 0 THEN s
    ELSE IF io = "createFail" THEN [s EXCEPT !.memtable = <<>>]
    ELSE IF io \in WriteFailures
    THEN [memtable |-> <<>>,
          files |-> Append(s.files,
                           Written(SortedSnapshot(s.memtable, DOMAIN s.memtable), io))]
    ELSE [memtable |-> <<>>,
          files |-> Append(s.files, SortedSnapshot(s.memtable, DOMAIN s.memtable))]

writeToSSTable(s, io) ==
    IF Cardinality(DOMAIN s.memtable) = 0 THEN s
    ELSE IF io = "createFail" THEN s
    ELSE IF io \in WriteFailures
    THEN [s EXCEPT !.files =
             Append(@, Written(SortedSnapshot(s.memtable, DOMAIN s.memtable), io))]
    ELSE [memtable |-> <<>>,
          files |-> Append(s.files, SortedSnapshot(s.memtable, DOMAIN s.memtable))]

\* Store.Put flushing only above the threshold.
PutFlushLate(s, entry, io) ==
    IF /\ entry.key \in DOMAIN s.memtable
       /\ Compare(entry.version, s.memtable[entry.key].version) <= 0
    THEN [s |-> s, stored |-> FALSE]
    ELSE LET mem == [k \in DOMAIN s.memtable \cup {entry.key} |->
                        IF k = entry.key THEN entry ELSE s.memtable[k]]
             s1 == [s EXCEPT !.memtable = mem]
         IN IF Cardinality(DOMAIN mem) > flushThreshold
            THEN [s |-> writeToSSTable(s1, io), stored |-> TRUE]
            ELSE [s |-> s1, stored |-> TRUE]

\* Store.Put: [s |-> the store afterwards, stored |-> the returned bool].
Put(s, entry, io) ==
    IF /\ entry.key \in DOMAIN s.memtable
       /\ Compare(entry.version, s.memtable[entry.key].version) <= 0
    THEN [s |-> s, stored |-> FALSE]
    ELSE LET mem == [k \in DOMAIN s.memtable \cup {entry.key} |->
                        IF k = entry.key THEN entry ELSE s.memtable[k]]
             s1 == [s EXCEPT !.memtable = mem]
         IN IF Cardinality(DOMAIN mem) >= flushThreshold
            THEN [s |-> writeToSSTable(s1, io), stored |-> TRUE]
            ELSE [s |-> s1, stored |-> TRUE]

\* readFromSSTable: the first line of the file with the key.
readFromSSTable(file, key) ==
    LET hits == {i \in 1..Len(file) : file[i].key = key}
    IN IF hits = {} THEN [entry |-> ZeroEntry, ok |-> FALSE]
       ELSE [entry |-> file[CHOOSE i \in hits : \A j \in hits : i <= j], ok |-> TRUE]

\* Store.Get reading the files oldest first.
GetOldestFirst(s, key) ==
    IF key \in DOMAIN s.memtable
    THEN [entry |-> s.memtable[key], ok |-> TRUE]
    ELSE LET hits == {i \in 1..Len(s.files) : readFromSSTable(s.files[i], key).ok}
         IN IF hits = {} THEN [entry |-> ZeroEntry, ok |-> FALSE]
            ELSE readFromSSTable(s.files[CHOOSE i \in hits : \A j \in hits : i <= j], key)

\* Store.Get: memtable first, then the files newest first, first hit wins.
Get(s, key) ==
    IF key \in DOMAIN s.memtable
    THEN [entry |-> s.memtable[key], ok |-> TRUE]
    ELSE LET hits == {i \in 1..Len(s.files) : readFromSSTable(s.files[i], key).ok}
         IN IF hits = {} THEN [entry |-> ZeroEntry, ok |-> FALSE]
            ELSE readFromSSTable(s.files[CHOOSE i \in hits : \A j \in hits : i >= j], key)

(***************************************************************************)
(* Ring.  xxhash.Sum64String is an external, stable hash; the model fixes  *)
(* it as a table on the strings that are hashed: strconv.Itoa(i) + nodeID  *)
(* for the virtual nodes, and the keys.                                    *)
(***************************************************************************)
ItoaConcat(i, nodeID) ==
    CASE i = 0 /\ nodeID = "A" -> "0A"
      [] i = 1 /\ nodeID = "A" -> "1A"
      [] i = 0 /\ nodeID = "B" -> "0B"
      [] i = 1 /\ nodeID = "B" -> "1B"
      [] i = 0 /\ nodeID = "C" -> "0C"
      [] i = 1 /\ nodeID = "C" -> "1C"
      [] i = 2 /\ nodeID = "A" -> "2A"
      [] i = 2 /\ nodeID = "B" -> "2B"
      [] i = 2 /\ nodeID = "C" -> "2C"

Sum64String(str) ==
    CASE str = "0A" -> 10
      [] str = "0B" -> 20
      [] str = "0C" -> 30
      [] str = "1A" -> 40
      [] str = "1C" -> 50
      [] str = "1B" -> 60
      [] str = "2B" -> 70
      [] str = "2C" -> 80
      [] str = "2A" -> 90
      [] str = "x" -> 15
      [] str = "y" -> 35

NewRing(replicas) == [replicas |-> replicas, hashMap |-> <<>>, keys |-> <<>>]

\* sort.Slice(r.keys, ascending).
RECURSIVE SortAsc(_)
SortAsc(seq) ==
    IF seq = <<>> THEN <<>>
    ELSE LET m == CHOOSE i \in 1..Len(seq) : \A j \in 1..Len(seq) : seq[i] <= seq[j]
         IN <<seq[m]>> \o SortAsc(SubSeq(seq, 1, m - 1) \o SubSeq(seq, m + 1, Len(seq)))

\* Ring.Add: `replicas` virtual hashes for the node, then the keys re-sorted.
RECURSIVE AddVirtual(_, _, _)
AddVirtual(r, nodeID, i) ==
    IF i >= r.replicas THEN r
    ELSE LET h == Sum64String(ItoaConcat(i, nodeID))
         IN AddVirtual([r EXCEPT !.keys = Append(r.keys, h),
                                 !.hashMap = [x \in DOMAIN r.hashMap \cup {h} |->
                                                 IF x = h THEN nodeID ELSE r.hashMap[x]]],
                       nodeID, i + 1)

\* Ring.Add without the sort of the keys.
AddUnsorted(r, nodeID) == AddVirtual(r, nodeID, 0)

Add(r, nodeID) ==
    LET r1 == AddVirtual(r, nodeID, 0)
    IN [r1 EXCEPT !.keys = SortAsc(r1.keys)]

\* Ring.search: the smallest index (0-based) of a ring hash >= h, 0 when none.
search(r, h) ==
    LET ge == {i \in 0..(Len(r.keys) - 1) : r.keys[i + 1] >= h}
    IN IF ge = {} THEN 0 ELSE CHOOSE i \in ge : \A j \in ge : i <= j

DistinctNodes(r) == {r.hashMap[h] : h \in DOMAIN r.hashMap}

\* The loop of Ring.Get from index idx with res collected so far.
RECURSIVE RingWalk(_, _, _, _)
RingWalk(r, idx, res, num) ==
    IF Len(res) >= num THEN res
    ELSE LET nodeID == r.hashMap[r.keys[idx + 1]]
             seen == \E i \in 1..Len(res) : res[i] = nodeID
         IN RingWalk(r, (idx + 1) % Len(r.keys),
                     IF seen THEN res ELSE Append(res, nodeID), num)

\* Whether the loop of Ring.Get ends: it leaves only with num distinct ids.
RingGetTerminates(r, num) ==
    Len(r.keys) = 0 \/ num <= 0 \/ Cardinality(DistinctNodes(r)) >= num

\* Ring.Get, where it terminates.
RingGet(r, key, num) ==
    IF Len(r.keys) = 0 \/ num <= 0 THEN <<>>
    ELSE RingWalk(r, search(r, Sum64String(key)), <<>>, num)

(***************************************************************************)
(* Configuration of the three processes (main): NODE_ID, NODE_ADDR, PEERS. *)
(***************************************************************************)
AddrOf(n) ==
    CASE n = "A" -> "A:8080"
      [] n = "B" -> "B:8080"
      [] n = "C" -> "C:8080"

\* The process listening on an address.
NodeAt(addr) == CHOOSE n \in NodeIDs : AddrOf(n) = addr

\* PEERS of node n: the other two nodes (host part = node id).
PeersOf(n) ==
    CASE n = "A" -> <<"B", "C">>
      [] n = "B" -> <<"A", "C">>
      [] n = "C" -> <<"A", "B">>

\* main: ring.Add(id), then ring.Add(host) for every peer.
RingOf(n) ==
    LET ps == PeersOf(n)
    IN Add(Add(Add(NewRing(virtualNodes), n), ps[1]), ps[2])

(***************************************************************************)
(* Gossip membership State.                                                *)
(***************************************************************************)
NewState(id, addr, now) == [Nodes |-> [k \in {id} |-> addr], TS |-> now]

\* State.Merge without the comparison of the timestamps.
MergeAlways(s, other) ==
    [Nodes |-> [k \in DOMAIN s.Nodes \cup DOMAIN other.Nodes |->
                   IF k \in DOMAIN other.Nodes THEN other.Nodes[k] ELSE s.Nodes[k]],
     TS |-> other.TS]

\* State.Merge replacing the local state by a newer one.
MergeReplace(s, other) ==
    IF other.TS <= s.TS THEN s ELSE other

\* State.Merge.
Merge(s, other) ==
    IF other.TS <= s.TS THEN s
    ELSE [Nodes |-> [k \in DOMAIN s.Nodes \cup DOMAIN other.Nodes |->
                        IF k \in DOMAIN other.Nodes THEN other.Nodes[k] ELSE s.Nodes[k]],
          TS |-> other.TS]

\* n.State.Nodes[nodeID]: a Go map read, "" when absent.
Lookup(s, nodeID) == IF nodeID \in DOMAIN s.Nodes THEN s.Nodes[nodeID] ELSE ""

\* IsQuorum with the comparison of acks made strict.
IsQuorumStrict(acks, total, required) == acks > required /\ total >= required

\* quorum.IsQuorum.
IsQuorum(acks, total, required) == acks >= required /\ total >= required

(***************************************************************************)
(* The cluster: three processes, each with its Store, its membership State *)
(* and its Lamport counter, and at most one client request in progress per *)
(* coordinator.                                                            *)
(***************************************************************************)
VARIABLES
    up,             \* up[n]: the process of node n is running
    store,          \* store[n]: n.Store (memtable and the files of its directory)
    counter,        \* counter[n]: n.Version, the local Lamport clock
    state,          \* state[n]: n.State, the gossiped membership
    ring,           \* ring[n]: n.Ring, the consistent-hash ring main has built
    mu,             \* mu[n]: who holds n.State.mu and n.Store.mu (sync.RWMutex)
    req,            \* req[n]: the client request node n is coordinating
    reply,          \* the client reply written by the last step, if it wrote one
    isolated,       \* the nodes the network cuts off from the others
    clock,          \* reads of the wall clock by NewState so far
    budget,         \* what the clients and the environment may still do, and
                    \* the keys the clients write: the PUT issued with `left`
                    \* PUTs to go writes budget.keys[left]
    hist,           \* the client PUTs that were answered, in the order of their replies
    writesStopped   \* clients have stopped writing and the cluster is kept healthy

vars == <<up, store, counter, state, ring, mu, req, reply, isolated, clock, budget, hist, writesStopped>>

\* A sync.RWMutex nobody holds, and the two locks of a node.
FreeLock == [writer |-> "", readers |-> {}]
FreeLocks == [state |-> FreeLock, store |-> FreeLock]

NoReq == [op |-> "idle"]
NoReply == [op |-> "none"]

\* The body of a request or response that carries no JSON document.
EmptyBody == [empty |-> TRUE]

InFlight == Cardinality({n \in NodeIDs : req[n] # NoReq})

\* The payload of a client PUT: clients write distinct bytes, the PUT issued
\* with `left` PUTs still in the budget carries the left-th payload.
Payload(left) ==
    CASE left = 1 -> "p"
      [] left = 2 -> "q"
      [] left = 3 -> "r"
      [] OTHER -> "s"

\* The start-up orders of the three processes: each reads the wall clock once.
StartOrders == {f \in [NodeIDs -> 1..3] : \A a, b \in NodeIDs : a # b => f[a] # f[b]}

InitWith(b) ==
    /\ up = [n \in NodeIDs |-> TRUE]
    /\ store = [n \in NodeIDs |-> NewStore]
    /\ counter = [n \in NodeIDs |-> 0]
    /\ \E f \in StartOrders :
          state = [n \in NodeIDs |-> NewState(n, AddrOf(n), f[n])]
    /\ ring = [n \in NodeIDs |-> RingOf(n)]
    /\ mu = [n \in NodeIDs |-> FreeLocks]
    /\ req = [n \in NodeIDs |-> NoReq]
    /\ reply = NoReply
    /\ isolated = {}
    /\ clock = 3
    /\ budget = b
    /\ hist = <<>>
    /\ writesStopped = FALSE

\* Spec: clients issue their requests one after the other, on key x.
Init == InitWith([puts |-> MaxPuts, gets |-> MaxGets, timeouts |-> 0,
                  crashes |-> 0, inflight |-> 1, keys |-> [i \in 1..MaxPuts |-> "x"]])

\* A store the model's bound on files admits.
WithinFiles(s) == Len(s.files) <= MaxFiles

\* A call from a to b gets through, and so does its answer.
Reachable(a, b) == up[a] /\ up[b] /\ a \notin isolated /\ b \notin isolated

\* Every node is up and the network connects them all.
Healthy == isolated = {} /\ \A n \in NodeIDs : up[n]

\* No gossip POST between running nodes would change a membership map.
GossipQuiescent ==
    \A s, d \in NodeIDs :
        (up[s] /\ up[d] /\ s # d) => Merge(state[d], state[s]) = state[d]

\* HandleInternalKV with the decode error ignored: a request without a
\* JSON body is stored as an entry with the zero value and version.
HandleInternalKVUnchecked(s, key, body, io) ==
    IF key = ""
    THEN [s |-> s, status |-> StatusBadRequest, body |-> EmptyBody]
    ELSE LET r == Put(s, [key |-> key,
                          value |-> IF body = EmptyBody THEN "" ELSE body.value,
                          version |-> IF body = EmptyBody THEN ZeroVersion ELSE body.version], io)
         IN [s |-> r.s,
             status |-> IF r.stored THEN StatusCreated ELSE StatusOK,
             body |-> EmptyBody]

(***************************************************************************)
(* HandleInternalKV, the handler of /internal/kv for every method: body is *)
(* the request body (EmptyBody for a GET, whose decode fails).  A handler  *)
(* that returns without writing a header answers 200 with an empty body.   *)
(***************************************************************************)
HandleInternalKV(s, key, body, io) ==
    IF body = EmptyBody
    THEN [s |-> s, status |-> StatusOK, body |-> EmptyBody]
    ELSE IF key = ""
    THEN [s |-> s, status |-> StatusBadRequest, body |-> EmptyBody]
    ELSE LET r == Put(s, [key |-> key, value |-> body.value, version |-> body.version], io)
         IN [s |-> r.s,
             status |-> IF r.stored THEN StatusCreated ELSE StatusOK,
             body |-> EmptyBody]

\* sendInternalPut's result from the peer's response.
PutAcked(resp) == resp.status = StatusCreated \/ resp.status = StatusOK

\* sendInternalGet returning whatever the decoder left in req, its error
\* ignored.
GetResultUnchecked(resp, key) ==
    IF resp.status # StatusOK THEN [entry |-> ZeroEntry, ok |-> FALSE]
    ELSE IF resp.body = EmptyBody THEN [entry |-> [ZeroEntry EXCEPT !.key = key], ok |-> TRUE]
    ELSE [entry |-> [key |-> key, value |-> resp.body.value, version |-> resp.body.version],
          ok |-> TRUE]

\* sendInternalGet's result from the peer's response.
GetResult(resp, key) ==
    IF resp.status # StatusOK THEN [entry |-> ZeroEntry, ok |-> FALSE]
    ELSE IF resp.body = EmptyBody THEN [entry |-> ZeroEntry, ok |-> FALSE]
    ELSE [entry |-> [key |-> key, value |-> resp.body.value, version |-> resp.body.version],
          ok |-> TRUE]

\* A load of the counter in place of the atomic add.
LoadUint64(c) == c

\* atomic.AddUint64(&n.Version, 1): the new value, which is also stored.
\* The counters of the model stay far below 2^64.
AddUint64(c) == c + 1

(***************************************************************************)
(* Client PUT (handleKvPut).                                               *)
(***************************************************************************)
\* Lines 109-131: read the body, allocate the version, ask the ring.
ClientPut(n, k, v) ==
    /\ up[n] /\ req[n] = NoReq
    /\ ~writesStopped
    /\ budget.puts > 0 /\ InFlight < budget.inflight
    /\ k = budget.keys[budget.puts] /\ v = Payload(budget.puts)
    /\ RingGetTerminates(ring[n], replicaFactor)
    /\ budget' = [budget EXCEPT !.puts = @ - 1]
    /\ counter' = [counter EXCEPT ![n] = AddUint64(counter[n])]
    /\ req' = [req EXCEPT ![n] =
                 [op |-> "PUT", key |-> k,
                  entry |-> [key |-> k, value |-> v,
                             version |-> [counter |-> AddUint64(counter[n]), nodeID |-> n]],
                  nodes |-> RingGet(ring[n], k, replicaFactor),
                  idx |-> 1, acks |-> 0, log |-> <<>>,
                  settled |-> GossipQuiescent]]
    /\ reply' = NoReply
    /\ UNCHANGED <<mu, ring, up, store, state, isolated, clock, hist, writesStopped>>

PutPending(n) == up[n] /\ req[n].op = "PUT" /\ req[n].idx <= Len(req[n].nodes)

\* One iteration of the loop of lines 133-153 is over: the next replica, the
\* acknowledgement counted or not, and what happened (for the properties).
PutAdvance(r, acked, what) ==
    [r EXCEPT !.idx = @ + 1,
              !.acks = IF acked THEN @ + 1 ELSE @,
              !.log = Append(@, what)]

\* Lines 134-140: the replica is this node.
PutLocal(n) ==
    /\ PutPending(n)
    /\ req[n].nodes[req[n].idx] = n
    /\ \E io \in FlushOutcomes :
          LET r == Put(store[n], req[n].entry, io)
          IN /\ WithinFiles(r.s)
             /\ store' = [store EXCEPT ![n] = r.s]
             /\ req' = [req EXCEPT ![n] =
                          PutAdvance(@, r.stored, IF r.stored THEN "stored" ELSE "notStored")]
    /\ reply' = NoReply
    /\ UNCHANGED <<mu, ring, up, counter, state, isolated, clock, budget, hist, writesStopped>>

\* Lines 143-147: the replica's address is not in the membership map.
PutUnknown(n) ==
    /\ PutPending(n)
    /\ req[n].nodes[req[n].idx] # n
    /\ Lookup(state[n], req[n].nodes[req[n].idx]) = ""
    /\ req' = [req EXCEPT ![n] = PutAdvance(@, FALSE, "unknown")]
    /\ reply' = NoReply
    /\ UNCHANGED <<mu, ring, up, store, counter, state, isolated, clock, budget, hist, writesStopped>>

\* The peer a known replica's address leads to.
PutPeer(n) == NodeAt(Lookup(state[n], req[n].nodes[req[n].idx]))

PutToPeer(n) ==
    /\ PutPending(n)
    /\ req[n].nodes[req[n].idx] # n
    /\ Lookup(state[n], req[n].nodes[req[n].idx]) # ""

\* Lines 150-152 and sendInternalPut: the call reaches the peer and its answer
\* comes back in time.
PutRemote(n) ==
    /\ PutToPeer(n)
    /\ Reachable(n, PutPeer(n))
    /\ \E io \in FlushOutcomes :
          LET resp == HandleInternalKV(store[PutPeer(n)], req[n].key,
                          [value |-> req[n].entry.value,
                           version |-> req[n].entry.version], io)
          IN /\ WithinFiles(resp.s)
             /\ store' = [store EXCEPT ![PutPeer(n)] = resp.s]
             /\ req' = [req EXCEPT ![n] =
                          PutAdvance(@, PutAcked(resp),
                                     IF resp.status = StatusCreated THEN "created"
                                     ELSE IF resp.status = StatusOK THEN "ok"
                                     ELSE "refused")]
    /\ reply' = NoReply
    /\ UNCHANGED <<mu, ring, up, counter, state, isolated, clock, budget, hist, writesStopped>>

\* sendInternalPut returns false because the peer is down or unreachable: the
\* peer never sees the request.
PutRemoteFail(n) ==
    /\ PutToPeer(n)
    /\ ~Reachable(n, PutPeer(n))
    /\ req' = [req EXCEPT ![n] = PutAdvance(@, FALSE, "failed")]
    /\ reply' = NoReply
    /\ UNCHANGED <<mu, ring, up, store, counter, state, isolated, clock, budget, hist, writesStopped>>

\* sendInternalPut returns false because the answer misses the 1 s timeout:
\* the peer has handled the request.
PutRemoteTimeout(n) ==
    /\ PutToPeer(n)
    /\ Reachable(n, PutPeer(n))
    /\ ~writesStopped
    /\ budget.timeouts > 0
    /\ budget' = [budget EXCEPT !.timeouts = @ - 1]
    /\ \E io \in FlushOutcomes :
          LET resp == HandleInternalKV(store[PutPeer(n)], req[n].key,
                          [value |-> req[n].entry.value,
                           version |-> req[n].entry.version], io)
          IN /\ WithinFiles(resp.s)
             /\ store' = [store EXCEPT ![PutPeer(n)] = resp.s]
    /\ req' = [req EXCEPT ![n] = PutAdvance(@, FALSE, "timedOut")]
    /\ reply' = NoReply
    /\ UNCHANGED <<mu, ring, up, counter, state, isolated, clock, hist, writesStopped>>

\* The replicas whose acknowledgement the loop counted.
Ackers(r) == {r.nodes[i] : i \in {j \in 1..Len(r.log) : r.log[j] \in {"stored", "created", "ok"}}}

\* The replicas the loop called in vain: the call failed or timed out.
Missed(r) == {r.nodes[i] : i \in {j \in 1..Len(r.log) : r.log[j] \in {"failed", "timedOut"}}}

\* Store s with the entry taken out of its memtable again.
Without(s, entry) ==
    IF entry.key \in DOMAIN s.memtable /\ s.memtable[entry.key] = entry
    THEN [s EXCEPT !.memtable = [k \in DOMAIN s.memtable \ {entry.key} |-> s.memtable[k]]]
    ELSE s

\* The quorum decision with a roll-back of the entry when the quorum failed.
PutReplyRollback(n) ==
    /\ up[n] /\ req[n].op = "PUT" /\ req[n].idx > Len(req[n].nodes)
    /\ LET r == [op |-> "PUT", coord |-> n, key |-> req[n].key, entry |-> req[n].entry,
                 nodes |-> req[n].nodes, acks |-> req[n].acks, log |-> req[n].log,
                 settled |-> req[n].settled,
                 status |-> IF IsQuorum(req[n].acks, replicaFactor, writeQuorum)
                            THEN StatusCreated ELSE StatusServiceUnavailable]
       IN /\ reply' = r
          /\ hist' = Append(hist, [key |-> r.key, entry |-> r.entry, status |-> r.status,
                                   acked |-> Ackers(r), missed |-> Missed(r)])
          /\ store' = IF r.status = StatusCreated THEN store
                      ELSE [m \in NodeIDs |-> Without(store[m], r.entry)]
    /\ req' = [req EXCEPT ![n] = NoReq]
    /\ UNCHANGED <<mu, ring, up, counter, state, isolated, clock, budget, writesStopped>>

\* Lines 156-160: the quorum decision and the reply.
PutReply(n) ==
    /\ up[n] /\ req[n].op = "PUT" /\ req[n].idx > Len(req[n].nodes)
    /\ LET r == [op |-> "PUT", coord |-> n, key |-> req[n].key, entry |-> req[n].entry,
                 nodes |-> req[n].nodes, acks |-> req[n].acks, log |-> req[n].log,
                 settled |-> req[n].settled,
                 status |-> IF IsQuorum(req[n].acks, replicaFactor, writeQuorum)
                            THEN StatusCreated ELSE StatusServiceUnavailable]
       IN /\ reply' = r
          /\ hist' = Append(hist, [key |-> r.key, entry |-> r.entry, status |-> r.status,
                                   acked |-> Ackers(r), missed |-> Missed(r)])
    /\ req' = [req EXCEPT ![n] = NoReq]
    /\ UNCHANGED <<mu, ring, up, store, counter, state, isolated, clock, budget, writesStopped>>

(***************************************************************************)
(* Client GET (handleKvGet).                                               *)
(***************************************************************************)
\* Lines 163-171.
ClientGet(n, k) ==
    /\ up[n] /\ req[n] = NoReq
    /\ budget.gets > 0 /\ InFlight < budget.inflight
    /\ \E i \in DOMAIN budget.keys : k = budget.keys[i]
    /\ RingGetTerminates(ring[n], replicaFactor)
    /\ budget' = [budget EXCEPT !.gets = @ - 1]
    /\ req' = [req EXCEPT ![n] =
                 [op |-> "GET", key |-> k,
                  nodes |-> RingGet(ring[n], k, replicaFactor),
                  idx |-> 1, acks |-> 0, winner |-> ZeroEntry, log |-> <<>>,
                  settled |-> GossipQuiescent,
                  after |-> IF InFlight = 0 THEN Len(hist) ELSE -1]]
    /\ reply' = NoReply
    /\ UNCHANGED <<mu, ring, up, store, counter, state, isolated, clock, hist, writesStopped>>

GetPending(n) == up[n] /\ req[n].op = "GET" /\ req[n].idx <= Len(req[n].nodes)

\* Lines 180-183 and 190-193: a hit is merged into the winner and counted.
\* The log keeps, for the properties, the replica asked, the process that
\* answered, and what it answered.
MergeHit(r, nodeID, from, how, got) ==
    [r EXCEPT !.idx = @ + 1,
              !.acks = IF got.ok THEN @ + 1 ELSE @,
              !.winner = IF got.ok /\ (r.acks = 0 \/ Compare(got.entry.version, @.version) > 0)
                         THEN got.entry ELSE @,
              !.log = Append(@, [node |-> nodeID, from |-> from, how |-> how, ok |-> got.ok,
                                 version |-> got.entry.version])]

\* Lines 174-186: the replica is this node, or its address is not known: the
\* local store is read.
GetLocal(n) ==
    /\ GetPending(n)
    /\ LET nodeID == req[n].nodes[req[n].idx]
       IN /\ nodeID = n \/ Lookup(state[n], nodeID) = ""
          /\ req' = [req EXCEPT ![n] =
                       MergeHit(@, nodeID, n, IF nodeID = n THEN "self" ELSE "unknown",
                                Get(store[n], req[n].key))]
    /\ reply' = NoReply
    /\ UNCHANGED <<mu, ring, up, store, counter, state, isolated, clock, budget, hist, writesStopped>>

\* The peer a known replica's address leads to.
GetPeer(n) == NodeAt(Lookup(state[n], req[n].nodes[req[n].idx]))

GetFromPeer(n) ==
    /\ GetPending(n)
    /\ req[n].nodes[req[n].idx] # n
    /\ Lookup(state[n], req[n].nodes[req[n].idx]) # ""

\* Lines 189-194 and sendInternalGet: a GET of /internal/kv, served by
\* HandleInternalKV when the peer is reached.
GetRemote(n) ==
    /\ GetFromPeer(n)
    /\ Reachable(n, GetPeer(n))
    /\ LET resp == HandleInternalKV(store[GetPeer(n)], req[n].key, EmptyBody, "ok")
       IN /\ store' = [store EXCEPT ![GetPeer(n)] = resp.s]
          /\ req' = [req EXCEPT ![n] =
                       MergeHit(@, req[n].nodes[req[n].idx], GetPeer(n), "remote",
                                GetResult(resp, req[n].key))]
    /\ reply' = NoReply
    /\ UNCHANGED <<mu, ring, up, counter, state, isolated, clock, budget, hist, writesStopped>>

\* sendInternalGet returns false: the peer is down or unreachable.
GetRemoteFail(n) ==
    /\ GetFromPeer(n)
    /\ ~Reachable(n, GetPeer(n))
    /\ req' = [req EXCEPT ![n] =
                 MergeHit(@, req[n].nodes[req[n].idx], GetPeer(n), "failed",
                          [entry |-> ZeroEntry, ok |-> FALSE])]
    /\ reply' = NoReply
    /\ UNCHANGED <<mu, ring, up, store, counter, state, isolated, clock, budget, hist, writesStopped>>

\* Lines 198-206.
GetReply(n) ==
    /\ up[n] /\ req[n].op = "GET" /\ req[n].idx > Len(req[n].nodes)
    /\ LET okay == IsQuorum(req[n].acks, replicaFactor, readQuorum)
       IN reply' = [op |-> "GET", coord |-> n, key |-> req[n].key,
                    status |-> IF okay THEN StatusOK ELSE StatusServiceUnavailable,
                    value |-> IF okay THEN req[n].winner.value ELSE "",
                    version |-> IF okay THEN req[n].winner.version ELSE ZeroVersion,
                    nodes |-> req[n].nodes, acks |-> req[n].acks, log |-> req[n].log,
                    settled |-> req[n].settled, after |-> req[n].after]
    /\ req' = [req EXCEPT ![n] = NoReq]
    /\ UNCHANGED <<mu, ring, up, store, counter, state, isolated, clock, budget, hist, writesStopped>>

(***************************************************************************)
(* Gossip: one POST of the loop of gossip.Start from s to its peer d, and  *)
(* HandleGossip at d.  A POST that fails is swallowed by the loop.         *)
(***************************************************************************)
Gossip(s, d) ==
    /\ Reachable(s, d)
    /\ \E i \in 1..Len(PeersOf(s)) : PeersOf(s)[i] = d
    /\ state' = [state EXCEPT ![d] = Merge(state[d], state[s])]
    /\ state' # state
    /\ reply' = NoReply
    /\ UNCHANGED <<mu, ring, up, store, counter, req, isolated, clock, budget, hist, writesStopped>>

(***************************************************************************)
(* The environment: the network partitions one node from the others and    *)
(* heals.                                                                  *)
(***************************************************************************)
Isolate(n) ==
    /\ isolated = {}
    /\ ~writesStopped
    /\ isolated' = {n}
    /\ reply' = NoReply
    /\ UNCHANGED <<mu, ring, up, store, counter, state, req, clock, budget, hist, writesStopped>>

Heal ==
    /\ isolated # {}
    /\ isolated' = {}
    /\ reply' = NoReply
    /\ UNCHANGED <<mu, ring, up, store, counter, state, req, clock, budget, hist, writesStopped>>

(***************************************************************************)
(* The environment: a process is killed and started again.  The memtable,  *)
(* the Lamport counter and the membership map live in memory only; the     *)
(* SSTable files stay in the directory.                                    *)
(***************************************************************************)
Stopped == [Nodes |-> <<>>, TS |-> 0]

Stop(n) ==
    /\ up[n]
    /\ ~writesStopped
    /\ budget.crashes > 0
    /\ budget' = [budget EXCEPT !.crashes = @ - 1]
    /\ up' = [up EXCEPT ![n] = FALSE]
    /\ store' = [store EXCEPT ![n].memtable = <<>>]
    /\ counter' = [counter EXCEPT ![n] = 0]
    /\ state' = [state EXCEPT ![n] = Stopped]
    /\ req' = [req EXCEPT ![n] = NoReq]
    /\ reply' = NoReply
    /\ UNCHANGED <<mu, ring, isolated, clock, hist, writesStopped>>

\* main: NewStore over the old directory, NewState with a fresh time stamp.
Restart(n) ==
    /\ ~up[n]
    /\ clock' = clock + 1
    /\ up' = [up EXCEPT ![n] = TRUE]
    /\ state' = [state EXCEPT ![n] = NewState(n, AddrOf(n), clock + 1)]
    /\ reply' = NoReply
    /\ UNCHANGED <<mu, ring, store, counter, req, isolated, budget, hist, writesStopped>>

\* From here on no client writes, and every node is up and reachable.
StopWrites ==
    /\ ~writesStopped
    /\ Healthy
    /\ \A n \in NodeIDs : req[n].op # "PUT"
    /\ writesStopped' = TRUE
    /\ reply' = NoReply
    /\ UNCHANGED <<mu, ring, up, store, counter, state, req, isolated, clock, budget, hist>>

PutSteps ==
    \/ \E n \in NodeIDs, k \in Keys : ClientPut(n, k, Payload(budget.puts))
    \/ \E n \in NodeIDs : PutLocal(n)
    \/ \E n \in NodeIDs : PutUnknown(n)
    \/ \E n \in NodeIDs : PutRemote(n)
    \/ \E n \in NodeIDs : PutReply(n)

GetSteps ==
    \/ \E n \in NodeIDs, k \in Keys : ClientGet(n, k)
    \/ \E n \in NodeIDs : GetLocal(n)
    \/ \E n \in NodeIDs : GetRemote(n)
    \/ \E n \in NodeIDs : GetReply(n)

Next ==
    \/ PutSteps
    \/ \E n \in NodeIDs : PutRemoteFail(n)
    \/ GetSteps
    \/ \E n \in NodeIDs : GetRemoteFail(n)
    \/ \E s, d \in NodeIDs : Gossip(s, d)
    \/ \E n \in NodeIDs : Isolate(n)
    \/ Heal

Spec == Init /\ [][Next]_vars

(***************************************************************************)
(* SpecWrite: the writers of key x alone, over a network that partitions,  *)
(* heals, and delays answers beyond the coordinator's timeout.             *)
(***************************************************************************)
InitWrite == InitWith([puts |-> MaxPuts, gets |-> 0, timeouts |-> MaxTimeouts,
                       crashes |-> 0, inflight |-> 1, keys |-> [i \in 1..MaxPuts |-> "x"]])

NextWrite ==
    \/ PutSteps
    \/ \E n \in NodeIDs : PutRemoteFail(n)
    \/ \E n \in NodeIDs : PutRemoteTimeout(n)
    \/ \E s, d \in NodeIDs : Gossip(s, d)
    \/ \E n \in NodeIDs : Isolate(n)
    \/ Heal

SpecWrite == InitWrite /\ [][NextWrite]_vars

(***************************************************************************)
(* SpecPartition: the writers and the reader of key y, while the network   *)
(* partitions and heals.                                                   *)
(***************************************************************************)
InitPartition == InitWith([puts |-> MaxPuts, gets |-> MaxGets, timeouts |-> 0,
                           crashes |-> 0, inflight |-> 1, keys |-> [i \in 1..MaxPuts |-> "y"]])

NextPartition ==
    \/ PutSteps
    \/ \E n \in NodeIDs : PutRemoteFail(n)
    \/ GetSteps
    \/ \E n \in NodeIDs : GetRemoteFail(n)
    \/ \E s, d \in NodeIDs : Gossip(s, d)
    \/ \E n \in NodeIDs : Isolate(n)
    \/ Heal

SpecPartition == InitPartition /\ [][NextPartition]_vars

(***************************************************************************)
(* SpecRace: concurrent client PUTs on two keys over a healthy network, so *)
(* that memtables flush while a PUT is being replicated.                   *)
(***************************************************************************)
InitRace == InitWith([puts |-> RacePuts, gets |-> 0, timeouts |-> 0,
                      crashes |-> 0, inflight |-> RaceInFlight,
                      keys |-> [i \in 1..RacePuts |-> IF i = RacePuts THEN "y" ELSE "x"]])

NextRace ==
    \/ PutSteps
    \/ \E s, d \in NodeIDs : Gossip(s, d)

SpecRace == InitRace /\ [][NextRace]_vars

(***************************************************************************)
(* SpecCrash: a node is stopped and restarted around a PUT and a GET.      *)
(***************************************************************************)
InitCrash == InitWith([puts |-> 1, gets |-> MaxGets, timeouts |-> 0,
                       crashes |-> MaxCrashes, inflight |-> 1, keys |-> <<"x">>])

NextCrash ==
    \/ PutSteps
    \/ \E n \in NodeIDs : PutRemoteFail(n)
    \/ GetSteps
    \/ \E n \in NodeIDs : GetRemoteFail(n)
    \/ \E s, d \in NodeIDs : Gossip(s, d)
    \/ \E n \in NodeIDs : Stop(n)
    \/ \E n \in NodeIDs : Restart(n)

SpecCrash == InitCrash /\ [][NextCrash]_vars

(***************************************************************************)
(* SpecFair: the handlers and the gossip loop keep running (each step that *)
(* is enabled is eventually taken); the clients write, then stop.          *)
(***************************************************************************)
InitFair == InitWith([puts |-> 1, gets |-> 0, timeouts |-> 0,
                      crashes |-> 0, inflight |-> 1, keys |-> <<"x">>])

Progress ==
    \/ \E n \in NodeIDs : PutLocal(n)
    \/ \E n \in NodeIDs : PutUnknown(n)
    \/ \E n \in NodeIDs : PutRemote(n)
    \/ \E n \in NodeIDs : PutRemoteFail(n)
    \/ \E n \in NodeIDs : PutReply(n)
    \/ \E s, d \in NodeIDs : Gossip(s, d)

NextFair ==
    \/ \E n \in NodeIDs, k \in Keys : ClientPut(n, k, Payload(budget.puts))
    \/ Progress
    \/ \E n \in NodeIDs : Isolate(n)
    \/ Heal
    \/ StopWrites

SpecFair == InitFair /\ [][NextFair]_vars /\ WF_vars(Progress) /\ WF_vars(Heal) /\ WF_vars(StopWrites)

(***************************************************************************)
(* SpecStore: one node's Store driven call by call: Store.Put directly,    *)
(* and the /internal/kv endpoint with a PUT body or with a GET.            *)
(***************************************************************************)
\* The versions the driver's entries carry.
StoreVersions == {[counter |-> c, nodeID |-> id] : c \in 1..StoreCounters, id \in {"A", "B"}}

\* Store.Put is about to flush: the entry is accepted and brings the
\* memtable to the threshold.
WouldFlush(s, entry) ==
    /\ ~(entry.key \in DOMAIN s.memtable
         /\ Compare(entry.version, s.memtable[entry.key].version) <= 0)
    /\ Cardinality(DOMAIN s.memtable \cup {entry.key}) >= flushThreshold

\* A call n.Store.Put(entry) whose flush, if it makes one, ends in one of
\* the outcomes ios.
StoreCall(n, k, ver, ios) ==
    /\ n \in budget.at
    /\ budget.puts > 0
    /\ budget' = [budget EXCEPT !.puts = @ - 1]
    /\ \E io \in ios :
          LET entry == [key |-> k, value |-> Payload(budget.puts), version |-> ver]
              r == Put(store[n], entry, io)
              failed == WouldFlush(store[n], entry) /\ io # "ok"
          IN /\ (io = "ok" \/ WouldFlush(store[n], entry))
             /\ store' = [store EXCEPT ![n] = r.s]
             /\ reply' = [op |-> "StorePut", node |-> n, entry |-> entry,
                          stored |-> r.stored, io |-> io, before |-> store[n]]
             /\ hist' = Append(hist, [key |-> k, entry |-> entry, stored |-> r.stored,
                                      failed |-> failed])
    /\ UNCHANGED <<mu, ring, up, counter, state, req, isolated, clock, writesStopped>>

\* A call n.Store.Put(entry); a flush may fail at os.Create.
StorePut(n, k, ver) == StoreCall(n, k, ver, FlushOutcomes)

\* A call n.Store.Put(entry); a flush may fail at os.Create or at the
\* buffered write.
StorePutFaulty(n, k, ver) == StoreCall(n, k, ver, FlushOutcomes \cup WriteFailures)

\* A POST of /internal/kv?key=entry.key with the kvReq body of the entry,
\* handled by HandleInternalKV.
InternalPost(n, entry, replay) ==
    /\ n \in budget.at
    /\ budget.puts > 0
    /\ budget' = [budget EXCEPT !.puts = @ - 1]
    /\ \E io \in FlushOutcomes :
          LET resp == HandleInternalKV(store[n], entry.key,
                                       [value |-> entry.value, version |-> entry.version], io)
              failed == WouldFlush(store[n], entry) /\ io # "ok"
          IN /\ (io = "ok" \/ WouldFlush(store[n], entry))
             /\ store' = [store EXCEPT ![n] = resp.s]
             /\ reply' = [op |-> "InternalPut", node |-> n, entry |-> entry,
                          replay |-> replay, status |-> resp.status, before |-> store[n]]
             /\ hist' = Append(hist, [key |-> entry.key, entry |-> entry,
                                      stored |-> resp.status = StatusCreated,
                                      failed |-> failed])
    /\ UNCHANGED <<mu, ring, up, counter, state, req, isolated, clock, writesStopped>>

\* sendInternalPut of a new entry arriving at n.
InternalPut(n, k, ver) ==
    InternalPost(n, [key |-> k, value |-> Payload(budget.puts), version |-> ver], FALSE)

\* The request of the i-th Put arriving at n once more: same key, value
\* and version.
InternalReplay(n, i) ==
    /\ i \in 1..Len(hist)
    /\ InternalPost(n, hist[i].entry, TRUE)

\* A GET of /internal/kv?key=k, handled by HandleInternalKV, and what
\* sendInternalGet makes of the response.
InternalGet(n, k) ==
    /\ n \in budget.at
    /\ LET resp == HandleInternalKV(store[n], k, EmptyBody, "ok")
       IN /\ store' = [store EXCEPT ![n] = resp.s]
          /\ reply' = [op |-> "InternalGet", node |-> n, key |-> k,
                       status |-> resp.status, body |-> resp.body,
                       result |-> GetResult(resp, k), before |-> store[n]]
    /\ UNCHANGED <<mu, ring, up, counter, state, req, isolated, clock, budget, hist, writesStopped>>

InitStore == InitWith([puts |-> StorePuts, gets |-> 0, timeouts |-> 0, crashes |-> 0,
                       inflight |-> 0, keys |-> <<>>, at |-> {"A"}])

NextStore ==
    \/ \E n \in NodeIDs, k \in Keys, ver \in StoreVersions : StorePut(n, k, ver)
    \/ \E n \in NodeIDs, k \in Keys, ver \in StoreVersions : InternalPut(n, k, ver)
    \/ \E n \in NodeIDs, i \in 1..StorePuts : InternalReplay(n, i)
    \/ \E n \in NodeIDs, k \in Keys : InternalGet(n, k)

SpecStore == InitStore /\ [][NextStore]_vars

(***************************************************************************)
(* SpecFlush: Store.Put called on one node's store, with flushes that may  *)
(* fail at the creation of the file or at the write.                       *)
(***************************************************************************)
InitFlush == InitWith([puts |-> StorePuts, gets |-> 0, timeouts |-> 0, crashes |-> 0,
                       inflight |-> 0, keys |-> <<>>, at |-> {"A"}])

NextFlush == \E n \in NodeIDs, k \in Keys, ver \in StoreVersions : StorePutFaulty(n, k, ver)

SpecFlush == InitFlush /\ [][NextFlush]_vars

(***************************************************************************)
(* SpecMerge: State.Merge called on the membership states of nodes A and   *)
(* B, which start from any states the two nodes can hold.                  *)
(***************************************************************************)
\* The address a node listens on after it was moved.
MovedAddrOf(n) ==
    CASE n = "A" -> "A:9090"
      [] n = "B" -> "B:9090"
      [] n = "C" -> "C:9090"

\* The membership states node n can hold: it always knows itself (NewState),
\* knows any of the others, each at its first or its moved address.
MembershipStates(n) ==
    {[Nodes |-> m, TS |-> ts] :
        m \in {f \in UNION {[D -> {AddrOf(k) : k \in NodeIDs} \cup {MovedAddrOf(k) : k \in NodeIDs}] :
                            D \in {D \in SUBSET NodeIDs : n \in D}} :
               \A k \in DOMAIN f : f[k] \in {AddrOf(k), MovedAddrOf(k)}},
        ts \in 1..MaxTS}

\* d.State.Merge(&st) with st the state of s, as HandleGossip calls it.
MergeCall(d, s) ==
    /\ d # s
    /\ {d, s} \subseteq budget.at
    /\ state' = [state EXCEPT ![d] = Merge(state[d], state[s])]
    /\ reply' = [op |-> "Merge", into |-> d, before |-> state[d], other |-> state[s]]
    /\ UNCHANGED <<mu, ring, up, store, counter, req, isolated, clock, budget, hist, writesStopped>>

InitMerge ==
    /\ up = [n \in NodeIDs |-> TRUE]
    /\ store = [n \in NodeIDs |-> NewStore]
    /\ counter = [n \in NodeIDs |-> 0]
    /\ \E a \in MembershipStates("A"), b \in MembershipStates("B") :
          state = [n \in NodeIDs |-> CASE n = "A" -> a
                                       [] n = "B" -> b
                                       [] OTHER -> NewState(n, AddrOf(n), MaxTS)]
    /\ ring = [n \in NodeIDs |-> RingOf(n)]
    /\ mu = [n \in NodeIDs |-> FreeLocks]
    /\ req = [n \in NodeIDs |-> NoReq]
    /\ reply = NoReply
    /\ isolated = {}
    /\ clock = MaxTS
    /\ budget = [puts |-> 0, gets |-> 0, timeouts |-> 0, crashes |-> 0, inflight |-> 0,
                 keys |-> <<>>, at |-> {"A", "B"}]
    /\ hist = <<>>
    /\ writesStopped = FALSE

NextMerge == \E d, s \in NodeIDs : MergeCall(d, s)

SpecMerge == InitMerge /\ [][NextMerge]_vars

(***************************************************************************)
(* SpecRing: the rings of two processes built call by call with Ring.Add,  *)
(* and asked with Ring.Get.  Here hist[n] is the sequence of the node ids  *)
(* added to n's ring.                                                      *)
(***************************************************************************)
\* The values of num Ring.Get is called with.
RingNums == (0 - 1)..replicaFactor

\* n.Ring.Add(id).
RingAdd(n, id) ==
    /\ n \in budget.at
    /\ budget.adds > 0
    /\ budget' = [budget EXCEPT !.adds = @ - 1]
    /\ ring' = [ring EXCEPT ![n] = Add(ring[n], id)]
    /\ hist' = [hist EXCEPT ![n] = Append(@, id)]
    /\ reply' = NoReply
    /\ UNCHANGED <<mu, up, store, counter, state, req, isolated, clock, writesStopped>>

\* n.Ring.Get(k, num): what it returns, or that its loop never ends.
RingGetCall(n, k, num) ==
    /\ n \in budget.at
    /\ reply' = [op |-> "RingGet", node |-> n, key |-> k, num |-> num,
                 terminates |-> RingGetTerminates(ring[n], num),
                 result |-> IF RingGetTerminates(ring[n], num)
                            THEN RingGet(ring[n], k, num) ELSE <<>>]
    /\ UNCHANGED <<mu, ring, up, store, counter, state, req, isolated, clock, budget, hist, writesStopped>>

InitRing ==
    /\ up = [n \in NodeIDs |-> TRUE]
    /\ store = [n \in NodeIDs |-> NewStore]
    /\ counter = [n \in NodeIDs |-> 0]
    /\ state = [n \in NodeIDs |-> NewState(n, AddrOf(n), 1)]
    /\ ring = [n \in NodeIDs |-> NewRing(virtualNodes)]
    /\ mu = [n \in NodeIDs |-> FreeLocks]
    /\ req = [n \in NodeIDs |-> NoReq]
    /\ reply = NoReply
    /\ isolated = {}
    /\ clock = 1
    /\ budget = [puts |-> 0, gets |-> 0, timeouts |-> 0, crashes |-> 0, inflight |-> 0,
                 keys |-> <<>>, at |-> {"A", "B"}, adds |-> RingAdds]
    /\ hist = [n \in NodeIDs |-> <<>>]
    /\ writesStopped = FALSE

NextRing ==
    \/ \E n \in NodeIDs, id \in NodeIDs : RingAdd(n, id)
    \/ \E n \in NodeIDs, k \in Keys, num \in RingNums : RingGetCall(n, k, num)

SpecRing == InitRing /\ [][NextRing]_vars

(***************************************************************************)
(* SpecGossip: the gossip loops alone.  Every node keeps posting its state *)
(* to each of its configured peers (the loop of gossip.Start never ends),  *)
(* the network may cut a node off and heals, and from some moment on it    *)
(* stays healed.                                                           *)
(***************************************************************************)
InitGossip == InitWith([puts |-> 0, gets |-> 0, timeouts |-> 0, crashes |-> 0,
                        inflight |-> 0, keys |-> <<>>])

NextGossip ==
    \/ \E s, d \in NodeIDs : Gossip(s, d)
    \/ \E n \in NodeIDs : Isolate(n)
    \/ Heal
    \/ StopWrites

SpecGossip ==
    /\ InitGossip /\ [][NextGossip]_vars
    /\ \A s, d \in NodeIDs : WF_vars(Gossip(s, d))
    /\ WF_vars(Heal) /\ WF_vars(StopWrites)

(***************************************************************************)
(* SpecVersion: the version allocation of handleKvPut with several handler *)
(* goroutines running at once, also at the same node.  Here req[h] is the  *)
(* request handler goroutine h is serving, and hist the versions allocated *)
(* so far, in the order of the atomic adds.                                *)
(***************************************************************************)
\* The goroutines net/http serves client requests with.
Handlers == {"h1", "h2", "h3"}

\* HandleKV dispatches a client PUT at node n to goroutine h, which reads
\* the body (lines 111-117).
Accept(h, n) ==
    /\ n \in budget.at
    /\ req[h] = NoReq
    /\ budget.puts > 0
    /\ budget' = [budget EXCEPT !.puts = @ - 1]
    /\ req' = [req EXCEPT ![h] = [op |-> "PUT", node |-> n, stage |-> "body",
                                  version |-> ZeroVersion]]
    /\ reply' = NoReply
    /\ UNCHANGED <<mu, ring, up, store, counter, state, isolated, clock, hist, writesStopped>>

\* Lines 120-123: the atomic add and the new version.
Allocate(h) ==
    /\ req[h] # NoReq /\ req[h].stage = "body"
    /\ LET n == req[h].node
           ver == [counter |-> AddUint64(counter[n]), nodeID |-> n]
       IN /\ counter' = [counter EXCEPT ![n] = AddUint64(counter[n])]
          /\ req' = [req EXCEPT ![h] = [@ EXCEPT !.stage = "allocated", !.version = ver]]
          /\ hist' = Append(hist, [node |-> n, version |-> ver, handler |-> h])
    /\ reply' = NoReply
    /\ UNCHANGED <<mu, ring, up, store, state, isolated, clock, budget, writesStopped>>

\* The handler replicates, replies and returns.
Finish(h) ==
    /\ req[h] # NoReq /\ req[h].stage = "allocated"
    /\ req' = [req EXCEPT ![h] = NoReq]
    /\ reply' = [op |-> "PUTDONE", node |-> req[h].node, version |-> req[h].version]
    /\ UNCHANGED <<mu, ring, up, store, counter, state, isolated, clock, budget, hist, writesStopped>>

InitVersion ==
    /\ up = [n \in NodeIDs |-> TRUE]
    /\ store = [n \in NodeIDs |-> NewStore]
    /\ counter = [n \in NodeIDs |-> 0]
    /\ state = [n \in NodeIDs |-> NewState(n, AddrOf(n), 1)]
    /\ ring = [n \in NodeIDs |-> RingOf(n)]
    /\ mu = [n \in NodeIDs |-> FreeLocks]
    /\ req = [h \in Handlers |-> NoReq]
    /\ reply = NoReply
    /\ isolated = {}
    /\ clock = 1
    /\ budget = [puts |-> VersionPuts, gets |-> 0, timeouts |-> 0, crashes |-> 0,
                 inflight |-> Cardinality(Handlers), keys |-> <<>>, at |-> {"A", "B"}]
    /\ hist = <<>>
    /\ writesStopped = FALSE

NextVersion ==
    \/ \E h \in Handlers, n \in NodeIDs : Accept(h, n)
    \/ \E h \in Handlers : Allocate(h)
    \/ \E h \in Handlers : Finish(h)

SpecVersion == InitVersion /\ [][NextVersion]_vars

(***************************************************************************)
(* SpecLock: the accesses to a node's membership State, statement by       *)
(* statement, with the sync.RWMutex State.mu.  Here req[n] holds the       *)
(* positions of two goroutines of node n: `out`, the loop of gossip.Start, *)
(* and `in`, a HandleGossip handler running State.Merge.  A third          *)
(* goroutine, a client handler, looks addresses up.                        *)
(***************************************************************************)
IdleOut == [pc |-> "idle", payload |-> Stopped]
IdleIn == [pc |-> "idle", other |-> Stopped, todo |-> {}]

\* gossip.go 49: st.mu.RLock().
StartRLock(n) ==
    /\ req[n].out.pc = "idle"
    /\ budget.sends > 0
    /\ mu[n].state.writer = ""
    /\ budget' = [budget EXCEPT !.sends = @ - 1]
    /\ mu' = [mu EXCEPT ![n].state.readers = @ \cup {"Start"}]
    /\ req' = [req EXCEPT ![n].out.pc = "rlocked"]
    /\ reply' = NoReply
    /\ UNCHANGED <<ring, up, store, counter, state, isolated, clock, hist, writesStopped>>

\* gossip.go 50: json.Marshal(st).
StartMarshal(n) ==
    /\ req[n].out.pc = "rlocked"
    /\ req' = [req EXCEPT ![n].out = [pc |-> "marshalled", payload |-> state[n]]]
    /\ reply' = [op |-> "Marshal", node |-> n, writer |-> mu[n].state.writer]
    /\ UNCHANGED <<mu, ring, up, store, counter, state, isolated, clock, budget, hist, writesStopped>>

\* gossip.go 55: st.mu.RUnlock().
StartRUnlock(n) ==
    /\ req[n].out.pc = "marshalled"
    /\ mu' = [mu EXCEPT ![n].state.readers = @ \ {"Start"}]
    /\ req' = [req EXCEPT ![n].out.pc = "post"]
    /\ reply' = NoReply
    /\ UNCHANGED <<ring, up, store, counter, state, isolated, clock, budget, hist, writesStopped>>

\* gossip.go 57-60 and node.go 99-106: the POST reaches peer d, whose
\* HandleGossip decodes it.  (The POSTs of the round to the other peer are
\* left out: their failures are swallowed.)
StartPost(n, d) ==
    /\ req[n].out.pc = "post"
    /\ \E i \in 1..Len(PeersOf(n)) : PeersOf(n)[i] = d
    /\ req[d].in.pc = "idle"
    /\ req' = [req EXCEPT ![n].out = IdleOut,
                          ![d].in = [pc |-> "decoded", other |-> req[n].out.payload,
                                     todo |-> {}]]
    /\ reply' = NoReply
    /\ UNCHANGED <<mu, ring, up, store, counter, state, isolated, clock, budget, hist, writesStopped>>

\* gossip.go 31: s.mu.Lock().
MergeLock(d) ==
    /\ req[d].in.pc = "decoded"
    /\ mu[d].state = FreeLock
    /\ mu' = [mu EXCEPT ![d].state.writer = "Merge"]
    /\ req' = [req EXCEPT ![d].in.pc = "locked"]
    /\ reply' = NoReply
    /\ UNCHANGED <<ring, up, store, counter, state, isolated, clock, budget, hist, writesStopped>>

\* gossip.go 34-36: the comparison of the timestamps.
MergeCompare(d) ==
    /\ req[d].in.pc = "locked"
    /\ req' = [req EXCEPT ![d].in =
                 IF @.other.TS <= state[d].TS
                 THEN [@ EXCEPT !.pc = "unlock"]
                 ELSE [@ EXCEPT !.pc = "copy", !.todo = DOMAIN req[d].in.other.Nodes]]
    /\ reply' = NoReply
    /\ UNCHANGED <<mu, ring, up, store, counter, state, isolated, clock, budget, hist, writesStopped>>

\* gossip.go 38-40: one iteration of the loop over other.Nodes.
MergeCopy(d, k) ==
    /\ req[d].in.pc = "copy"
    /\ k \in req[d].in.todo
    /\ state' = [state EXCEPT ![d].Nodes =
                   [x \in DOMAIN @ \cup {k} |->
                       IF x = k THEN req[d].in.other.Nodes[k] ELSE @[x]]]
    /\ req' = [req EXCEPT ![d].in.todo = @ \ {k}]
    /\ reply' = NoReply
    /\ UNCHANGED <<mu, ring, up, store, counter, isolated, clock, budget, hist, writesStopped>>

\* gossip.go 41: s.TS = other.TS.
MergeTS(d) ==
    /\ req[d].in.pc = "copy"
    /\ req[d].in.todo = {}
    /\ state' = [state EXCEPT ![d].TS = req[d].in.other.TS]
    /\ req' = [req EXCEPT ![d].in.pc = "unlock"]
    /\ reply' = NoReply
    /\ UNCHANGED <<mu, ring, up, store, counter, isolated, clock, budget, hist, writesStopped>>

\* gossip.go 32: the deferred s.mu.Unlock().
MergeUnlock(d) ==
    /\ req[d].in.pc = "unlock"
    /\ mu' = [mu EXCEPT ![d].state.writer = ""]
    /\ req' = [req EXCEPT ![d].in = IdleIn]
    /\ reply' = NoReply
    /\ UNCHANGED <<ring, up, store, counter, state, isolated, clock, budget, hist, writesStopped>>

\* The Merge running at n is between its first and its last write.
Writing(n) == req[n].in.pc = "copy"

\* node.go 143 and 174: n.State.Nodes[nodeID] read by a client handler.  The
\* handler takes no lock (State.mu is not exported by package gossip).  A
\* read while Merge writes the map is a data race: it yields the value the
\* map holds, or the runtime ends the process ("concurrent map read and
\* map write").
LookupCall(n, id) ==
    /\ budget.lookups > 0
    /\ budget' = [budget EXCEPT !.lookups = @ - 1]
    /\ \E res \in {Lookup(state[n], id)} \cup (IF Writing(n) THEN {"fatal"} ELSE {}) :
          reply' = [op |-> "Lookup", node |-> n, id |-> id, result |-> res,
                    writer |-> mu[n].state.writer, readers |-> mu[n].state.readers,
                    writing |-> Writing(n)]
    /\ UNCHANGED <<mu, ring, up, store, counter, state, req, isolated, clock, hist, writesStopped>>

InitLock ==
    /\ up = [n \in NodeIDs |-> TRUE]
    /\ store = [n \in NodeIDs |-> NewStore]
    /\ counter = [n \in NodeIDs |-> 0]
    /\ \E f \in StartOrders :
          state = [n \in NodeIDs |-> NewState(n, AddrOf(n), f[n])]
    /\ ring = [n \in NodeIDs |-> RingOf(n)]
    /\ mu = [n \in NodeIDs |-> FreeLocks]
    /\ req = [n \in NodeIDs |-> [out |-> IdleOut, in |-> IdleIn]]
    /\ reply = NoReply
    /\ isolated = {}
    /\ clock = 3
    /\ budget = [puts |-> 0, gets |-> 0, timeouts |-> 0, crashes |-> 0, inflight |-> 0,
                 keys |-> <<>>, sends |-> LockSends, lookups |-> LockLookups]
    /\ hist = <<>>
    /\ writesStopped = FALSE

NextLock ==
    \/ \E n \in NodeIDs : StartRLock(n)
    \/ \E n \in NodeIDs : StartMarshal(n)
    \/ \E n \in NodeIDs : StartRUnlock(n)
    \/ \E n, d \in NodeIDs : StartPost(n, d)
    \/ \E d \in NodeIDs : MergeLock(d)
    \/ \E d \in NodeIDs : MergeCompare(d)
    \/ \E d, k \in NodeIDs : MergeCopy(d, k)
    \/ \E d \in NodeIDs : MergeTS(d)
    \/ \E d \in NodeIDs : MergeUnlock(d)
    \/ \E n, id \in NodeIDs : LookupCall(n, id)

SpecLock == InitLock /\ [][NextLock]_vars

(***************************************************************************)
(* SpecConc: Store.Put and Store.Get of node A run by several goroutines,  *)
(* statement by statement, with the sync.RWMutex Store.mu.  Here req[g] is *)
(* the position of goroutine g, and hist the Puts that have returned.  No  *)
(* flush fails.  The file a flush is writing is in the directory from      *)
(* os.Create on; the bufio.Writer hands its buffer to the file whenever it *)
(* is full, wherever in a line that is, so that until the last write the   *)
(* file ends with a part of a line (`torn`) or with a whole line.          *)
(***************************************************************************)
Putters == {"p1", "p2"}
Getters == {"g1"}

\* The store the goroutines share.
ConcNode == "A"

\* The file of index i is being written and ends in the middle of a line.
Torn(i) ==
    \E g \in Putters :
        /\ req[g].op = "Put" /\ req[g].pc = "write"
        /\ req[g].torn
        /\ i = Len(store[ConcNode].files)

\* Store.Put(entry) is called by goroutine g.
PutCall(g, k) ==
    /\ req[g] = NoReq
    /\ budget.puts > 0
    /\ budget' = [budget EXCEPT !.puts = @ - 1]
    /\ req' = [req EXCEPT ![g] =
                 [op |-> "Put", pc |-> "lock", torn |-> FALSE, snap |-> <<>>, stored |-> FALSE,
                  entry |-> [key |-> k, value |-> Payload(budget.puts),
                             version |-> [counter |-> ConcPuts - budget.puts + 1,
                                          nodeID |-> ConcNode]]]]
    /\ reply' = NoReply
    /\ UNCHANGED <<mu, ring, up, store, counter, state, isolated, clock, hist, writesStopped>>

\* store.go 53: s.mu.Lock().
PutLock(g) ==
    /\ req[g].op = "Put" /\ req[g].pc = "lock"
    /\ mu[ConcNode].store = FreeLock
    /\ mu' = [mu EXCEPT ![ConcNode].store.writer = g]
    /\ req' = [req EXCEPT ![g].pc = "store"]
    /\ reply' = NoReply
    /\ UNCHANGED <<ring, up, store, counter, state, isolated, clock, budget, hist, writesStopped>>

\* store.go 56-63: the version test, the write to the memtable and the
\* threshold test.
PutStore(g) ==
    /\ req[g].op = "Put" /\ req[g].pc = "store"
    /\ LET e == req[g].entry
           s == store[ConcNode]
       IN IF e.key \in DOMAIN s.memtable /\ Compare(e.version, s.memtable[e.key].version) <= 0
          THEN /\ req' = [req EXCEPT ![g] = [@ EXCEPT !.pc = "unlock", !.stored = FALSE]]
               /\ store' = store
          ELSE LET mem == [k \in DOMAIN s.memtable \cup {e.key} |->
                              IF k = e.key THEN e ELSE s.memtable[k]]
               IN /\ store' = [store EXCEPT ![ConcNode].memtable = mem]
                  /\ req' = [req EXCEPT ![g] =
                               [@ EXCEPT !.pc = IF Cardinality(DOMAIN mem) >= flushThreshold
                                                THEN "create" ELSE "unlock",
                                         !.stored = TRUE]]
    /\ reply' = NoReply
    /\ UNCHANGED <<mu, ring, up, counter, state, isolated, clock, budget, hist, writesStopped>>

\* store.go 111-129: the sorted snapshot and os.Create: the new, empty
\* file is in the directory.
FlushCreate(g) ==
    /\ req[g].op = "Put" /\ req[g].pc = "create"
    /\ LET s == store[ConcNode]
       IN /\ req' = [req EXCEPT ![g] =
                       [@ EXCEPT !.pc = "write",
                                 !.snap = SortedSnapshot(s.memtable, DOMAIN s.memtable)]]
          /\ store' = [store EXCEPT ![ConcNode].files = Append(@, <<>>)]
    /\ reply' = NoReply
    /\ UNCHANGED <<mu, ring, up, counter, state, isolated, clock, budget, hist, writesStopped>>

\* store.go 138-140: encoder.Encode fills the bufio.Writer, which writes
\* its buffer to the file when it is full: the file grows to j whole lines
\* of the snapshot, followed or not by a part of the next line.
FlushChunk(g, j, torn) ==
    /\ req[g].op = "Put" /\ req[g].pc = "write"
    /\ LET n == Len(store[ConcNode].files)
           cur == Len(store[ConcNode].files[n])
       IN /\ j \in cur..(Len(req[g].snap) - 1)
          /\ (j > cur \/ (torn /\ ~req[g].torn))
          /\ store' = [store EXCEPT ![ConcNode].files[n] = SubSeq(req[g].snap, 1, j)]
    /\ req' = [req EXCEPT ![g].torn = torn]
    /\ reply' = NoReply
    /\ UNCHANGED <<mu, ring, up, counter, state, isolated, clock, budget, hist, writesStopped>>

\* store.go 143-146: w.Flush writes the rest: the file is complete.
FlushFinal(g) ==
    /\ req[g].op = "Put" /\ req[g].pc = "write"
    /\ store' = [store EXCEPT ![ConcNode].files[Len(store[ConcNode].files)] = req[g].snap]
    /\ req' = [req EXCEPT ![g] = [@ EXCEPT !.pc = "clear", !.torn = FALSE]]
    /\ reply' = NoReply
    /\ UNCHANGED <<mu, ring, up, counter, state, isolated, clock, budget, hist, writesStopped>>

\* store.go 149: the memtable is replaced by an empty one.
FlushClear(g) ==
    /\ req[g].op = "Put" /\ req[g].pc = "clear"
    /\ store' = [store EXCEPT ![ConcNode].memtable = <<>>]
    /\ req' = [req EXCEPT ![g].pc = "unlock"]
    /\ reply' = NoReply
    /\ UNCHANGED <<mu, ring, up, counter, state, isolated, clock, budget, hist, writesStopped>>

\* store.go 54 and 70: the deferred s.mu.Unlock(), and Put returns.
PutReturn(g) ==
    /\ req[g].op = "Put" /\ req[g].pc = "unlock"
    /\ mu' = [mu EXCEPT ![ConcNode].store.writer = ""]
    /\ hist' = Append(hist, [key |-> req[g].entry.key, entry |-> req[g].entry,
                             stored |-> req[g].stored])
    /\ req' = [req EXCEPT ![g] = NoReq]
    /\ reply' = [op |-> "PutReturn", entry |-> req[g].entry, stored |-> req[g].stored]
    /\ UNCHANGED <<ring, up, store, counter, state, isolated, clock, budget, writesStopped>>

\* Store.Get(k) is called by goroutine g; `known` tells whether a Put for k
\* has returned true before.
GetCall(g, k) ==
    /\ req[g] = NoReq
    /\ budget.gets > 0
    /\ budget' = [budget EXCEPT !.gets = @ - 1]
    /\ req' = [req EXCEPT ![g] =
                 [op |-> "Get", pc |-> "rlock", key |-> k, idx |-> 0,
                  known |-> \E i \in 1..Len(hist) : hist[i].key = k /\ hist[i].stored,
                  result |-> [entry |-> ZeroEntry, ok |-> FALSE]]]
    /\ reply' = NoReply
    /\ UNCHANGED <<mu, ring, up, store, counter, state, isolated, clock, hist, writesStopped>>

\* store.go 75: s.mu.RLock().
GetRLock(g) ==
    /\ req[g].op = "Get" /\ req[g].pc = "rlock"
    /\ mu[ConcNode].store.writer = ""
    /\ mu' = [mu EXCEPT ![ConcNode].store.readers = @ \cup {g}]
    /\ req' = [req EXCEPT ![g].pc = "lookup"]
    /\ reply' = NoReply
    /\ UNCHANGED <<ring, up, store, counter, state, isolated, clock, budget, hist, writesStopped>>

\* store.go 77-81: the memtable lookup and s.mu.RUnlock().
GetLookup(g) ==
    /\ req[g].op = "Get" /\ req[g].pc = "lookup"
    /\ mu' = [mu EXCEPT ![ConcNode].store.readers = @ \ {g}]
    /\ LET m == store[ConcNode].memtable
           k == req[g].key
       IN req' = [req EXCEPT ![g] =
                    IF k \in DOMAIN m
                    THEN [@ EXCEPT !.pc = "return", !.result = [entry |-> m[k], ok |-> TRUE]]
                    ELSE [@ EXCEPT !.pc = "glob"]]
    /\ reply' = NoReply
    /\ UNCHANGED <<ring, up, store, counter, state, isolated, clock, budget, hist, writesStopped>>

\* store.go 84-88: filepath.Glob and the sort, newest first: the files that
\* are in the directory now.
GetGlob(g) ==
    /\ req[g].op = "Get" /\ req[g].pc = "glob"
    /\ req' = [req EXCEPT ![g] = [@ EXCEPT !.pc = "scan", !.idx = Len(store[ConcNode].files)]]
    /\ reply' = NoReply
    /\ UNCHANGED <<mu, ring, up, store, counter, state, isolated, clock, budget, hist, writesStopped>>

\* store.go 91-99 and readFromSSTable: the next file of the list is read,
\* with no lock, as it is now.  The key found in a whole line ends the
\* search.  A file that ends inside a line does not end the loop of
\* readFromSSTable: Decode fails at the part of a line and leaves it in
\* the decoder, every later Decode returns the same error, and
\* decoder.More() stays true: the call never returns.
GetRead(g) ==
    /\ req[g].op = "Get" /\ req[g].pc = "scan"
    /\ LET i == req[g].idx
       IN req' = [req EXCEPT ![g] =
                    IF i = 0 THEN [@ EXCEPT !.pc = "return"]
                    ELSE LET r == readFromSSTable(store[ConcNode].files[i], req[g].key)
                         IN IF r.ok THEN [@ EXCEPT !.pc = "return", !.result = r]
                            ELSE IF Torn(i) THEN [@ EXCEPT !.pc = "spinning"]
                            ELSE [@ EXCEPT !.idx = i - 1]]
    /\ reply' = NoReply
    /\ UNCHANGED <<mu, ring, up, store, counter, state, isolated, clock, budget, hist, writesStopped>>

\* Store.Get returns.
GetReturn(g) ==
    /\ req[g].op = "Get" /\ req[g].pc = "return"
    /\ reply' = [op |-> "StoreGet", key |-> req[g].key, known |-> req[g].known,
                 ok |-> req[g].result.ok, entry |-> req[g].result.entry]
    /\ req' = [req EXCEPT ![g] = NoReq]
    /\ UNCHANGED <<mu, ring, up, store, counter, state, isolated, clock, budget, hist, writesStopped>>

InitConc ==
    /\ up = [n \in NodeIDs |-> TRUE]
    /\ store = [n \in NodeIDs |-> NewStore]
    /\ counter = [n \in NodeIDs |-> 0]
    /\ state = [n \in NodeIDs |-> NewState(n, AddrOf(n), 1)]
    /\ ring = [n \in NodeIDs |-> RingOf(n)]
    /\ mu = [n \in NodeIDs |-> FreeLocks]
    /\ req = [g \in Putters \cup Getters |-> NoReq]
    /\ reply = NoReply
    /\ isolated = {}
    /\ clock = 1
    /\ budget = [puts |-> ConcPuts, gets |-> ConcGets, timeouts |-> 0, crashes |-> 0,
                 inflight |-> 0, keys |-> <<>>]
    /\ hist = <<>>
    /\ writesStopped = FALSE

NextConc ==
    \/ \E g \in Putters, k \in Keys : PutCall(g, k)
    \/ \E g \in Putters : PutLock(g)
    \/ \E g \in Putters : PutStore(g)
    \/ \E g \in Putters : FlushCreate(g)
    \/ \E g \in Putters, j \in 0..flushThreshold, torn \in BOOLEAN : FlushChunk(g, j, torn)
    \/ \E g \in Putters : FlushFinal(g)
    \/ \E g \in Putters : FlushClear(g)
    \/ \E g \in Putters : PutReturn(g)
    \/ \E g \in Getters, k \in Keys : GetCall(g, k)
    \/ \E g \in Getters : GetRLock(g)
    \/ \E g \in Getters : GetLookup(g)
    \/ \E g \in Getters : GetGlob(g)
    \/ \E g \in Getters : GetRead(g)
    \/ \E g \in Getters : GetReturn(g)

SpecConc == InitConc /\ [][NextConc]_vars

(***************************************************************************)
(* What the properties speak of.                                           *)
(***************************************************************************)
\* The elements of a sequence.
Range(seq) == {seq[i] : i \in DOMAIN seq}

\* The replicas of `nodes` whose store returns, for key k, an entry of version >= v.
Holders(nodes, k, v) ==
    {m \in Range(nodes) :
        /\ up[m]
        /\ Get(store[m], k).ok
        /\ Compare(Get(store[m], k).entry.version, v) >= 0}

\* The processes that answered a GET's reads with an entry.
Responders(log) == {log[i].from : i \in {j \in DOMAIN log : log[j].ok}}

\* The version is the maximum of the versions the log's hits returned.
IsMaxOfHits(v, log) ==
    /\ \E i \in DOMAIN log : log[i].ok /\ log[i].version = v
    /\ \A i \in DOMAIN log : log[i].ok => Compare(v, log[i].version) >= 0

\* The replicas of a PUT's log that C5 counts as acknowledging.
Acknowledging(log) == {i \in DOMAIN log : log[i] \in {"stored", "created", "ok"}}

\* Every call of the GET's loop was answered.
AllAnswered(log) == \A i \in DOMAIN log : log[i].how # "failed"

\* No client PUT is in progress.
NoPutInProgress == \A n \in NodeIDs : req[n].op # "PUT"

\* The reply is that of a client GET of key k that began after the first
\* `after` answered PUTs, with no PUT in progress or answered since.
GetReplyAfter(k, after) ==
    /\ reply.op = "GET" /\ reply.key = k
    /\ reply.after = after /\ Len(hist) = after
    /\ NoPutInProgress

(***************************************************************************)
(* C1.  For every client PUT that replies 201, at the moment of the reply  *)
(* at least writeQuorum distinct replicas of the key's replica set hold,   *)
(* for that key, an entry whose version is >= the version of this PUT.     *)
(***************************************************************************)
C1_QuorumHoldsAtReply ==
    (reply.op = "PUT" /\ reply.status = StatusCreated)
        => Cardinality(Holders(reply.nodes, reply.key, reply.entry.version)) >= writeQuorum

(***************************************************************************)
(* C2.  A client PUT of bytes b to key k that replies 201, followed, with  *)
(* no other write to k in between, by a client GET of k that succeeds,     *)
(* returns exactly b, whichever nodes coordinate and whatever versions the *)
(* replicas held before the PUT.  (Stated for a GET coordinated by a        *)
(* replica that acknowledged the PUT.)                                     *)
(***************************************************************************)
C2_ReadYourWrite ==
    \A k \in Keys :
        ( /\ Len(hist) >= 1
          /\ GetReplyAfter(k, Len(hist))
          /\ reply.status = StatusOK
          /\ hist[Len(hist)].key = k
          /\ hist[Len(hist)].status = StatusCreated
          /\ reply.coord \in hist[Len(hist)].acked )
            => reply.value = hist[Len(hist)].entry.value

(***************************************************************************)
(* C3.  For every client GET that replies successfully, at least           *)
(* readQuorum distinct replicas responded with an entry, and the returned  *)
(* version is the maximum of the versions those replicas returned.         *)
(***************************************************************************)
C3_ReadQuorumOfReplicas ==
    (reply.op = "GET" /\ reply.status = StatusOK)
        => /\ Cardinality(Responders(reply.log)) >= readQuorum
           /\ IsMaxOfHits(reply.version, reply.log)

(***************************************************************************)
(* C4.  A client GET for which every replica is the coordinator itself or  *)
(* a node whose address it does not know collects at most 1                *)
(* acknowledgment and replies 503, even for a key in its own store.        *)
(***************************************************************************)
C4_IsolatedGetFails ==
    ( /\ reply.op = "GET"
      /\ \A i \in DOMAIN reply.log : reply.log[i].how \in {"self", "unknown"} )
        => reply.acks <= 1 /\ reply.status = StatusServiceUnavailable

(***************************************************************************)
(* C5.  A client PUT replies 201 if and only if the acknowledgments are at *)
(* least writeQuorum, and 503 otherwise; each replica of the replica set   *)
(* is asked once and counts 1 when it is the coordinator and its local Put *)
(* returned true, or a known peer whose internal PUT answered 201 or 200,  *)
(* and 0 when the local Put returned false, the address is unknown, or the *)
(* call failed or timed out.                                               *)
(***************************************************************************)
C5_PutRepliesByQuorum ==
    reply.op = "PUT"
        => /\ Len(reply.log) = replicaFactor
           /\ Cardinality(Range(reply.nodes)) = replicaFactor
           /\ reply.acks = Cardinality(Acknowledging(reply.log))
           /\ reply.status = StatusCreated
                <=> Cardinality(Acknowledging(reply.log)) >= writeQuorum
           /\ reply.status \in {StatusCreated, StatusServiceUnavailable}

\* A PUT answered 201 on exactly two acknowledgments, the third replica's
\* answer having missed the timeout.
C5_Witness ==
    /\ reply.op = "PUT"
    /\ reply.status = StatusCreated
    /\ Cardinality(Acknowledging(reply.log)) = writeQuorum
    /\ "timedOut" \in Range(reply.log)

(***************************************************************************)
(* C6.  Eventual consistency: once client writes have stopped and all      *)
(* nodes are up and mutually reachable, eventually every replica of every  *)
(* written key holds the same entry, the one of the maximum version        *)
(* written for that key.  (Stated for the keys of the writes that were     *)
(* answered 201.)                                                          *)
(***************************************************************************)
Converged ==
    \A i \in {j \in DOMAIN hist : hist[j].status = StatusCreated} :
        \A m \in NodeIDs :
            /\ Get(store[m], hist[i].key).ok
            /\ Compare(Get(store[m], hist[i].key).entry.version, hist[i].entry.version) >= 0
            /\ \A o \in NodeIDs :
                  Get(store[m], hist[i].key).entry = Get(store[o], hist[i].key).entry

C6_EventuallyConsistent == writesStopped ~> Converged

(***************************************************************************)
(* C7.  Happy path: with all nodes up and gossip having run, whatever the  *)
(* start order, a first client PUT of key x to A replies 201, and a        *)
(* subsequent client GET of x at B succeeds and returns the value written  *)
(* with version {1, A}.                                                    *)
(***************************************************************************)
C7_HappyPath ==
    /\ ( /\ reply.op = "PUT" /\ reply.coord = "A" /\ reply.key = "x"
         /\ Len(hist) = 1
         /\ reply.settled /\ Healthy /\ Missed(reply) = {} )
          => reply.status = StatusCreated
    /\ ( /\ GetReplyAfter("x", 1) /\ reply.coord = "B"
         /\ reply.settled /\ Healthy /\ AllAnswered(reply.log)
         /\ hist[1].key = "x" /\ hist[1].status = StatusCreated
         /\ hist[1].missed = {}
         /\ hist[1].entry.version = [counter |-> 1, nodeID |-> "A"] )
          => /\ reply.status = StatusOK
             /\ reply.value = hist[1].entry.value
             /\ reply.version = [counter |-> 1, nodeID |-> "A"]

(***************************************************************************)
(* C8.  Single-node outage on write: in a gossiped cluster with exactly B  *)
(* stopped, a client PUT to A replies 201, and a following client GET of   *)
(* the key at A returns the value just written with A's version.  (Stated  *)
(* for a coordinator A that knows the address of every replica.)           *)
(***************************************************************************)
OnlyBDown == {m \in NodeIDs : ~up[m]} = {"B"}

C8_WriteDuringOutage ==
    /\ ( /\ reply.op = "PUT" /\ reply.coord = "A"
         /\ reply.settled /\ OnlyBDown
         /\ Missed(reply) \subseteq {"B"} /\ "unknown" \notin Range(reply.log) )
          => reply.status = StatusCreated
    /\ ( /\ GetReplyAfter("x", 1) /\ reply.coord = "A"
         /\ reply.settled /\ OnlyBDown
         /\ \A i \in DOMAIN reply.log :
               reply.log[i].how # "unknown" /\ (reply.log[i].how = "failed" => reply.log[i].node = "B")
         /\ hist[1].status = StatusCreated /\ hist[1].missed = {"B"}
         /\ hist[1].entry.version.nodeID = "A" )
          => /\ reply.status = StatusOK
             /\ reply.value = hist[1].entry.value
             /\ reply.version = hist[1].entry.version

(***************************************************************************)
(* C9.  Convergence after rejoin: after a PUT of x by A was acknowledged   *)
(* by A and C while B was stopped, and B was restarted with an empty store *)
(* and fresh membership, a client GET of x at B meets the read quorum and  *)
(* returns the value and the version of that PUT.                          *)
(***************************************************************************)
C9_ReadAfterRejoin ==
    ( /\ GetReplyAfter("x", 1) /\ reply.coord = "B"
      /\ Healthy /\ AllAnswered(reply.log)
      /\ hist[1].status = StatusCreated /\ hist[1].missed = {"B"}
      /\ hist[1].acked = {"A", "C"}
      /\ hist[1].entry.version.nodeID = "A" )
        => /\ reply.status = StatusOK
           /\ reply.value = hist[1].entry.value
           /\ reply.version = hist[1].entry.version

(***************************************************************************)
(* C10.  Conflicting writes: if during a partition {A} | {B, C} a client   *)
(* PUT to y at A gets version {1, A} and a client PUT to y at B gets       *)
(* version {1, B} and is acknowledged by B and C, then after the partition *)
(* heals every successful client GET of y returns B's value with version   *)
(* {1, B}.  The partition shows in the calls that failed: at least one of  *)
(* A's, and B's call to A.                                                 *)
(***************************************************************************)
PartitionedWrites(i, j) ==
    /\ hist[i].key = "y" /\ hist[i].missed # {}
    /\ hist[i].entry.version = [counter |-> 1, nodeID |-> "A"]
    /\ hist[i].acked \subseteq {"A"}
    /\ hist[j].key = "y" /\ hist[j].missed = {"A"}
    /\ hist[j].entry.version = [counter |-> 1, nodeID |-> "B"]
    /\ hist[j].acked = {"B", "C"}
    /\ hist[j].status = StatusCreated

C10_TieBrokenByNodeID ==
    \A i, j \in DOMAIN hist :
        ( /\ PartitionedWrites(i, j)
          /\ GetReplyAfter("y", 2)
          /\ Healthy /\ AllAnswered(reply.log)
          /\ reply.status = StatusOK )
            => /\ reply.value = hist[j].entry.value
               /\ reply.version = [counter |-> 1, nodeID |-> "B"]

(***************************************************************************)
(* The store of one node (SpecStore).                                      *)
(***************************************************************************)
\* The entries for key k anywhere in store s: memtable and every file.
EntriesOf(s, k) ==
    (IF k \in DOMAIN s.memtable THEN {s.memtable[k]} ELSE {})
    \cup {s.files[i][j] : <<i, j>> \in {<<i, j>> \in (1..Len(s.files)) \X (1..flushThreshold) :
                                          j <= Len(s.files[i]) /\ s.files[i][j].key = k}}

\* The calls of Put for key k so far, in order of time.
PutsOf(k) == {i \in 1..Len(hist) : hist[i].key = k}

\* C11: whenever Store.Put is called with an entry whose version is not
\* greater than the version of the entry Store.Get returns for its key (be
\* that entry in the memtable or only in a flushed SSTable), Put returns
\* false and leaves the memtable and the files as they were.
C11_StaleRejected ==
    reply.op = "StorePut" =>
        LET cur == Get(reply.before, reply.entry.key)
        IN (cur.ok /\ Compare(reply.entry.version, cur.entry.version) <= 0)
           => (~reply.stored /\ store[reply.node] = reply.before)

\* C12: Store.Get returns, for every key, the entry of the greatest version
\* among the memtable and all SSTable files.
C12_GetIsGreatest ==
    \A n \in NodeIDs, k \in Keys :
        LET g == Get(store[n], k)
        IN /\ g.ok <=> EntriesOf(store[n], k) # {}
           /\ g.ok => \A e \in EntriesOf(store[n], k) :
                          Compare(e.version, g.entry.version) <= 0

\* When exactly two Puts were made for key k at node A, the second with
\* the greater version.
TwoPuts(k) ==
    /\ Cardinality(PutsOf(k)) = 2
    /\ \E i, j \in PutsOf(k) :
          i < j /\ Compare(hist[j].entry.version, hist[i].entry.version) > 0

\* C13: when e1 and then e2 with the greater version were Put for a key, and
\* no other Put was made for it, Store.Get returns e2 for it, whether or
\* not a flush came between the two or after them.
C13_NewerWins ==
    \A k \in Keys :
        TwoPuts(k) =>
            LET j == CHOOSE i \in PutsOf(k) : \A h \in PutsOf(k) : h <= i
            IN Get(store["A"], k) = [entry |-> hist[j].entry, ok |-> TRUE]

\* Both entries of the key are on disk: a flush came between the two Puts
\* and another one after them.
C13_Witness ==
    \E k \in Keys :
        /\ TwoPuts(k)
        /\ Len(store["A"].files) = 2
        /\ k \notin DOMAIN store["A"].memtable
        /\ \A i \in 1..2 : readFromSSTable(store["A"].files[i], k).ok
        /\ readFromSSTable(store["A"].files[1], k).entry
              # readFromSSTable(store["A"].files[2], k).entry

\* C14: a replayed internal PUT, whose key and version the node stored
\* before, is answered 200 and leaves the store as it was, whatever was put
\* or flushed in between.
C14_ReplayNoOp ==
    (/\ reply.op = "InternalPut"
     /\ reply.replay
     /\ \E i \in 1..(Len(hist) - 1) : hist[i].entry = reply.entry /\ hist[i].stored)
    => (reply.status = StatusOK /\ store[reply.node] = reply.before)

\* C15: a GET of /internal/kv is answered 200 with the value and version of
\* the local Store.Get on a hit, which sendInternalGet returns with ok =
\* true, and 404 on a miss.
C15_InternalGetServes ==
    reply.op = "InternalGet" =>
        LET g == Get(reply.before, reply.key)
        IN IF g.ok
           THEN /\ reply.status = StatusOK
                /\ reply.body = [value |-> g.entry.value, version |-> g.entry.version]
                /\ reply.result = [entry |-> g.entry, ok |-> TRUE]
           ELSE reply.status = 404

\* Exactly flushThreshold Puts were made, for pairwise distinct keys, and no
\* flush failed.
ThresholdPuts ==
    /\ Len(hist) = flushThreshold
    /\ \A i, j \in 1..Len(hist) : i # j => hist[i].key # hist[j].key
    /\ \A i \in 1..Len(hist) : ~hist[i].failed

\* C19: from an empty store, after exactly flushThreshold Puts for pairwise
\* distinct keys there is exactly one SSTable file, the memtable is empty,
\* and Get finds every key with the entry that was put.
C19_FlushAtThreshold ==
    ThresholdPuts =>
        /\ Len(store["A"].files) = 1
        /\ store["A"].memtable = <<>>
        /\ \A i \in 1..Len(hist) :
              Get(store["A"], hist[i].key) = [entry |-> hist[i].entry, ok |-> TRUE]

\* The threshold was reached by Puts that were all stored.
C19_Witness ==
    /\ ThresholdPuts
    /\ \A i \in 1..Len(hist) : hist[i].stored
    /\ Len(store["A"].files) = 1

C21_SelfBindingKept ==
    reply.op = "Merge" =>
        /\ reply.into \in DOMAIN state[reply.into].Nodes
        /\ state[reply.into].Nodes[reply.into] = reply.before.Nodes[reply.into]

\* C22: a Merge never lowers the receiver's timestamp, and an incoming
\* state whose timestamp is less than or equal to the receiver's leaves
\* the receiver's map and timestamp unchanged.
C22_TimestampMonotone ==
    reply.op = "Merge" =>
        /\ state[reply.into].TS >= reply.before.TS
        /\ reply.other.TS <= reply.before.TS => state[reply.into] = reply.before

\* An incoming state with the receiver's own timestamp, listing a node the
\* receiver does not know, was merged.
C22_Witness ==
    /\ reply.op = "Merge"
    /\ reply.other.TS = reply.before.TS
    /\ DOMAIN reply.other.Nodes \ DOMAIN reply.before.Nodes # {}
    /\ state[reply.into] = reply.before

(***************************************************************************)
(* Gossip alone (SpecGossip).                                              *)
(***************************************************************************)
\* Every node's membership map holds the address of every node.
EveryoneKnowsEveryone ==
    \A n, m \in NodeIDs : Lookup(state[n], m) = AddrOf(m)

\* C23: once all nodes stay up and reachable, with every node gossiping on
\* to its peers, every node's membership map eventually holds the address
\* of every other node, whatever the order of the start-up timestamps.
C23_EveryoneLearnsEveryone == writesStopped ~> EveryoneKnowsEveryone

(***************************************************************************)
(* The ring (SpecRing).                                                    *)
(***************************************************************************)
Min(a, b) == IF a <= b THEN a ELSE b

\* C17: every call of Ring.Get terminates and returns pairwise distinct
\* node ids, as many as num or, when the ring holds fewer distinct nodes,
\* all of them; it returns the empty sequence for an empty ring and for
\* num <= 0.
C17_RingGetTerminates ==
    reply.op = "RingGet" =>
        LET r == ring[reply.node]
            res == reply.result
        IN /\ reply.terminates
           /\ \A i, j \in 1..Len(res) : i # j => res[i] # res[j]
           /\ Len(res) = IF reply.num <= 0 THEN 0
                         ELSE Min(reply.num, Cardinality(DistinctNodes(r)))

\* How many times id was added to the ring of node n.
TimesAdded(n, id) == Cardinality({i \in 1..Len(hist[n]) : hist[n][i] = id})

\* The same multiset of node ids was added to the rings of a and b.
SameMultiset(a, b) == \A id \in NodeIDs : TimesAdded(a, id) = TimesAdded(b, id)

NobodyHolds(k) == \A n \in NodeIDs : ~Get(store[n], k).ok

\* C20: a client GET for a key that no replica holds is answered 503, never
\* 200 with an empty entry and never 404, also when every replica is up and
\* reachable: no replica's miss counts as an acknowledgment.
C20_UnknownKeyIs503 ==
    (reply.op = "GET" /\ NobodyHolds(reply.key)) =>
        /\ reply.status = StatusServiceUnavailable
        /\ reply.acks = 0
        /\ \A i \in 1..Len(reply.log) : ~reply.log[i].ok

\* Such a GET was answered in a healthy cluster by a coordinator that knew
\* the address of every replica: it read its own store and every peer
\* answered its internal GET.
C20_Witness ==
    /\ reply.op = "GET"
    /\ NobodyHolds(reply.key)
    /\ Healthy
    /\ Len(reply.log) = replicaFactor
    /\ \A i \in 1..Len(reply.log) : reply.log[i].how \in {"self", "remote"}
    /\ \E i \in 1..Len(reply.log) : reply.log[i].how = "remote"
    /\ reply.status = StatusServiceUnavailable

(***************************************************************************)
(* Version allocation under concurrent client PUTs (SpecVersion).          *)
(***************************************************************************)
\* C24: under every interleaving of concurrent client PUTs, the versions
\* allocated are {c, nodeID} with c the result of the atomic add on the
\* coordinator's counter: the counters a node hands out strictly increase,
\* no two PUTs of one node get the same version, and no two PUTs anywhere
\* in the cluster get equal versions.
C24_VersionsUnique ==
    \A i, j \in 1..Len(hist) :
        i < j =>
            /\ hist[i].version # hist[j].version
            /\ hist[i].version.nodeID = hist[i].node
            /\ hist[i].node = hist[j].node
                  => hist[i].version.counter < hist[j].version.counter

\* Two PUTs are in progress at one node at the same time, both with their
\* version allocated, and a PUT at another node got the same counter as
\* one of them.
C24_Witness ==
    /\ \E g, h \in Handlers :
          /\ g # h
          /\ req[g] # NoReq /\ req[h] # NoReq
          /\ req[g].stage = "allocated" /\ req[h].stage = "allocated"
          /\ req[g].node = req[h].node
    /\ \E i, j \in 1..Len(hist) :
          /\ hist[i].node # hist[j].node
          /\ hist[i].version.counter = hist[j].version.counter

(***************************************************************************)
(* A client PUT that fails (SpecWrite).                                    *)
(***************************************************************************)
\* The replicas that accepted the entry of the PUT answered by r: the
\* coordinator's own Store.Put returned true, or the peer answered 201.
Accepted(r) == {r.nodes[i] : i \in {j \in 1..Len(r.log) : r.log[j] \in {"stored", "created"}}}

\* C25: when a client PUT is answered 503 nothing is rolled back: every
\* replica that accepted the entry during the request, the coordinator
\* included, holds it at the reply, and the coordinator's counter stays at
\* the value the PUT took.
C25_NoRollback ==
    (reply.op = "PUT" /\ reply.status = StatusServiceUnavailable) =>
        /\ \A m \in Accepted(reply) :
              Get(store[m], reply.key) = [entry |-> reply.entry, ok |-> TRUE]
        /\ reply.entry.version.counter >= 1
        /\ counter[reply.coord] = reply.entry.version.counter

\* A PUT was answered 503 after a replica had accepted its entry.
C25_Witness ==
    /\ reply.op = "PUT"
    /\ reply.status = StatusServiceUnavailable
    /\ Accepted(reply) # {}
    /\ reply.coord \in Accepted(reply)

(***************************************************************************)
(* A client GET is read-only (Spec).                                       *)
(***************************************************************************)
\* A step of a client GET: a coordinator takes the GET, reads its own
\* store, asks a peer, or replies.
GetStep ==
    \E n \in NodeIDs : req'[n] # req[n] /\ (req[n].op = "GET" \/ req'[n].op = "GET")

\* C26: no step of a client GET, successful or not, changes a store (the
\* coordinator's or that of a replica it asks), a membership map or a
\* version counter: there is no read repair.
C26_GetReadOnly ==
    [][GetStep => (store' = store /\ state' = state /\ counter' = counter)]_vars

\* A GET was answered 200 after asking a peer that holds no entry or an
\* older one than the winner, and the peer holds it still.
C26_Witness ==
    /\ reply.op = "GET"
    /\ reply.status = StatusOK
    /\ \E i \in 1..Len(reply.log) :
          /\ reply.log[i].how = "remote"
          /\ Compare(Get(store[reply.log[i].from], reply.key).entry.version,
                     reply.version) < 0

(***************************************************************************)
(* Failed flushes (SpecFlush).                                             *)
(***************************************************************************)
\* The memtable m with the entry put into it.
WithEntry(m, entry) ==
    [k \in DOMAIN m \cup {entry.key} |-> IF k = entry.key THEN entry ELSE m[k]]

\* C27: when the flush a Store.Put triggers fails, at the creation of the
\* file or at the buffered write, the memtable is not cleared and every
\* entry of it is returned by Store.Get, and Put returns true; the next
\* Put that stores an entry, the memtable being at or above the threshold,
\* flushes again: when that flush succeeds every entry is in the new file
\* and the memtable is empty.
C27_FailedFlushKeepsMemtable ==
    reply.op = "StorePut" =>
        LET s == store[reply.node]
        IN /\ reply.io # "ok" =>
                 /\ reply.stored
                 /\ s.memtable = WithEntry(reply.before.memtable, reply.entry)
                 /\ Cardinality(DOMAIN s.memtable) >= flushThreshold
                 /\ \A k \in DOMAIN s.memtable :
                       Get(s, k) = [entry |-> s.memtable[k], ok |-> TRUE]
           /\ (/\ reply.io = "ok"
               /\ reply.stored
               /\ Cardinality(DOMAIN reply.before.memtable) >= flushThreshold) =>
                 /\ s.memtable = <<>>
                 /\ Len(s.files) = Len(reply.before.files) + 1
                 /\ \A k \in DOMAIN reply.before.memtable \cup {reply.entry.key} :
                       Get(s, k) = [entry |-> WithEntry(reply.before.memtable, reply.entry)[k],
                                    ok |-> TRUE]

\* A flush failed at the write and left a part of a file, and the flush of
\* the next Put that stored an entry succeeded.
C27_Witness ==
    /\ reply.op = "StorePut"
    /\ reply.io = "ok"
    /\ reply.stored
    /\ Cardinality(DOMAIN reply.before.memtable) >= flushThreshold
    /\ Len(hist) >= 2
    /\ hist[Len(hist) - 1].failed
    /\ Len(reply.before.files) >= 1
    /\ reply.before.files[Len(reply.before.files)] # <<>>
    /\ store[reply.node].memtable = <<>>

(***************************************************************************)
(* The membership lock (SpecLock).                                         *)
(***************************************************************************)
\* C28: every access to a node's membership map and timestamp is made under
\* State.mu: Merge holds it exclusively, the serialization of the gossip
\* loop and the address lookups of the client handlers hold it shared, so
\* that no serialization and no lookup runs while a Merge holds the lock.
C28_MembershipGuarded ==
    /\ reply.op = "Marshal" => (reply.writer = "" /\ "Start" \in mu[reply.node].state.readers)
    /\ reply.op = "Lookup" => ~reply.writing
    /\ \A n \in NodeIDs : Writing(n) => mu[n].state = [writer |-> "Merge", readers |-> {}]

(***************************************************************************)
(* Concurrent Store.Get and Store.Put (SpecConc).                          *)
(***************************************************************************)
\* C29: under every interleaving of Store.Get, Store.Put and the flushes
\* Put triggers, a Store.Get for a key that starts after a Store.Put for
\* that key has returned true returns an entry for the key.
C29_GetFindsStoredKey ==
    /\ (reply.op = "StoreGet" /\ reply.known) => (reply.ok /\ reply.entry.key = reply.key)
    /\ \A g \in Getters : (req[g] # NoReq /\ req[g].known) => req[g].pc # "spinning"

====
